---- MODULE Spec2Model ----
(***************************************************************************)
(* A model of the courier gateway slice: the Redis task queue of           *)
(* backends/rapidpro/task.go, the inbound webhook handler receiveMessage   *)
(* and the outbound SendMsg of the Chat API adapters.                      *)
(***************************************************************************)
EXTENDS Integers, Sequences, FiniteSets, TLC

(***************************************************************************)
(* Bounds of the model.                                                    *)
(***************************************************************************)
\* number of enqueue calls (one Redis connection each) that may run concurrently
NCalls == 2
\* the wall clock runs over the seconds 0..MaxClock
MaxClock == 0
\* a webhook carries at most MaxEvents messages and acks together
MaxEvents == 2
\* number of webhook requests handled concurrently
NReqs == 2
\* an outbound message carries at most MaxAttachments attachments
MaxAttachments == 2

(***************************************************************************)
(* State.                                                                  *)
(***************************************************************************)
VARIABLES
    \* ---- Redis task queue (task.go) ----
    clock,      \* time.Now(): [s |-> seconds, us |-> microseconds]
    zsets,      \* Redis sorted sets: a set of [key, member, score]
    lists,      \* Redis lists: key -> sequence of values
    qpc,        \* per call: "idle" | "flushed" | "done"
    qcall,      \* per call: the arguments it was made with
    pipe,       \* per connection: commands written by rc.Send/rc.Do the server has not read yet
    qret,       \* per call: "none" | "nil" | "err", the value queueTask/queueMailroomTask returns
    sent,       \* per call (history): every command the call issued
    applied,    \* per call (history): how many of its writes the server has applied
    execOrder,  \* (history) the calls in the order their EXEC was executed
    \* ---- inbound webhooks (receiveMessage) and the backend they write to ----
    req,        \* per request: the handler's position, payload, locals and response
    rows,       \* the durable message rows, by external id, in the order persisted
    seenIDs,    \* the dedup cache: external ids marked seen
    handoff,    \* the handoff tasks enqueued for persisted messages, in order
    outStatus,  \* the outbound messages known to the backend: external id -> status
    accepted,   \* (history) external ids of messages some request answered 200 for
    \* ---- outbound (SendMsg) ----
    snd,        \* the send in progress: position, message, locals, status, and its history
    \* ---- inbound webhooks of the signed provider (FreshChat) ----
    fc          \* the signed request in progress: position, headers, body, response

qvars == <<clock, zsets, lists, qpc, qcall, pipe, qret, sent, applied, execOrder>>

rvars == <<req, rows, seenIDs, handoff, outStatus, accepted>>

svars == <<snd>>

fvars == <<fc>>

vars == <<qvars, rvars, svars, fvars>>

(***************************************************************************)
(* Helpers.                                                                *)
(***************************************************************************)
Calls == 1..NCalls
OrgIDs == {1, 2}
ContactIDs == {1, 2, 3}
\* the org a contact belongs to (DBContact.OrgID_)
OrgOf(contactID) == IF contactID = 3 THEN 2 ELSE 1

\* fmt's %d for the ids of the model
Itoa(n) ==
    CASE n = 0 -> "0" [] n = 1 -> "1" [] n = 2 -> "2" [] n = 3 -> "3"
      [] n = 4 -> "4" [] OTHER -> "n"

(***************************************************************************)
(* Time and scores.  A score is a decimal with five fractional digits:     *)
(* [s |-> whole seconds, f |-> 0..99999], its value s + f/100000.          *)
(***************************************************************************)
\* the fair-share offset subtracted from the org queue's score
OffsetSeconds == 10000000

Micros == {0, 999996}
Instants == [s : 0..MaxClock, us : Micros]
TimeLT(a, b) == a.s < b.s \/ (a.s = b.s /\ a.us < b.us)
ScoreLT(a, b) == a.s < b.s \/ (a.s = b.s /\ a.f < b.f)
ZeroScore == [s |-> 0, f |-> 0]

\* the score as it would be with nothing subtracted from it
epochFloat_NoOffset(now, less) == [s |-> now.s, us |-> now.us]

\* float64(now.UnixNano()) / float64(time.Second), less `less` whole seconds
epochFloat(now, less) == [s |-> now.s - less, us |-> now.us]

\* fmt.Sprintf("%.5f", x), as Redis reads it back: x rounded to five decimals
Fmt5(x) ==
    LET f == (x.us + 5) \div 10
    IN  IF f = 100000 THEN [s |-> x.s + 1, f |-> 0] ELSE [s |-> x.s, f |-> f]

(***************************************************************************)
(* JSON.  A body is a map; `extra` = "chan" stands for a map holding a     *)
(* value encoding/json cannot encode, for which json.Marshal fails.        *)
(***************************************************************************)
Bodies == [id : {1}, extra : {"none", "chan"}]

\* json.Marshal(body)
MarshalBody(body) ==
    IF body.extra = "chan" THEN [err |-> TRUE, json |-> <<>>]
    ELSE [err |-> FALSE, json |-> <<"json", body>>]

\* json.Marshal(mrTask{...}): fails when the task inside cannot be encoded
MarshalTask(t) ==
    IF "extra" \in DOMAIN t.task /\ t.task.extra = "chan"
    THEN [err |-> TRUE, json |-> <<>>]
    ELSE [err |-> FALSE, json |-> <<"json", t>>]

\* type mrTask struct
mrTask(type, orgID, task, queuedOn) ==
    [type |-> type, org_id |-> orgID, task |-> task, queued_on |-> queuedOn]

\* type mrContactTask struct
mrContactTask(contactID) == [contact_id |-> contactID]

(***************************************************************************)
(* Redis commands, as rc.Send and rc.Do write them to the connection.      *)
(***************************************************************************)
Cmd(op, key, score, member) == [op |-> op, key |-> key, score |-> score, member |-> member]
Multi == Cmd("multi", "", ZeroScore, <<>>)
Exec == Cmd("exec", "", ZeroScore, <<>>)
IsWrite(cmd) == cmd.op \notin {"multi", "exec"}

RECURSIVE CountWrites(_)
CountWrites(cmds) ==
    IF cmds = <<>> THEN 0
    ELSE (IF IsWrite(Head(cmds)) THEN 1 ELSE 0) + CountWrites(Tail(cmds))

RECURSIVE CountOp(_, _)
CountOp(cmds, op) ==
    IF cmds = <<>> THEN 0
    ELSE (IF Head(cmds).op = op THEN 1 ELSE 0) + CountOp(Tail(cmds), op)

\* celery.QueueEmptyTask(rc, queueName, taskName): the wake-up task pushed on the broker list
QueueEmptyTask(queueName, taskName) ==
    <<Cmd("lpush", queueName, ZeroScore, <<"celery", taskName, "{}">>)>>

\* the keys of task.go
subQueueKey(contactID) == "ch:" \o Itoa(contactID)
orgQueueKey(taskName, orgID) == taskName \o ":" \o Itoa(orgID)
activeKey(taskName) == taskName \o ":active"
contactQueueKey(orgID, contactID) == "c:" \o Itoa(orgID) \o ":" \o Itoa(contactID)

\* queueTask as it would be with the multi/exec bracket left out
queueTask_NoMulti(queueName, taskName, orgID, subQueue, body, now) ==
    LET bodyJSON == MarshalBody(body)
    IN  IF bodyJSON.err THEN [err |-> TRUE, cmds |-> <<>>]
        ELSE [err |-> FALSE,
              cmds |-> (IF subQueue # ""
                          THEN <<Cmd("zadd", subQueue, Fmt5(epochFloat(now, 0)), bodyJSON.json)>>
                          ELSE <<>>)
                       \o <<Cmd("zadd", orgQueueKey(taskName, orgID),
                                Fmt5(epochFloat(now, OffsetSeconds)), bodyJSON.json),
                            Cmd("zincrby", activeKey(taskName), ZeroScore, <<"org", orgID>>)>>
                       \o QueueEmptyTask(queueName, taskName)
                       \o <<Exec>>]

\* queueTask as it would be writing the sub-queue with the org queue's score
queueTask_SubQueueOffset(queueName, taskName, orgID, subQueue, body, now) ==
    LET bodyJSON == MarshalBody(body)
        score == Fmt5(epochFloat(now, OffsetSeconds))
    IN  IF bodyJSON.err THEN [err |-> TRUE, cmds |-> <<>>]
        ELSE [err |-> FALSE,
              cmds |-> <<Multi>>
                       \o (IF subQueue # ""
                          THEN <<Cmd("zadd", subQueue, score, bodyJSON.json)>>
                          ELSE <<>>)
                       \o <<Cmd("zadd", orgQueueKey(taskName, orgID), score, bodyJSON.json),
                            Cmd("zincrby", activeKey(taskName), ZeroScore, <<"org", orgID>>)>>
                       \o QueueEmptyTask(queueName, taskName)
                       \o <<Exec>>]

\* queueTask: the commands it sends, or err when the body cannot be encoded
queueTask(queueName, taskName, orgID, subQueue, body, now) ==
    LET bodyJSON == MarshalBody(body)
    IN  IF bodyJSON.err THEN [err |-> TRUE, cmds |-> <<>>]
        ELSE [err |-> FALSE,
              cmds |-> <<Multi>>
                       \o (IF subQueue # ""
                          THEN <<Cmd("zadd", subQueue, Fmt5(epochFloat(now, 0)), bodyJSON.json)>>
                          ELSE <<>>)
                       \o <<Cmd("zadd", orgQueueKey(taskName, orgID),
                                Fmt5(epochFloat(now, OffsetSeconds)), bodyJSON.json),
                            Cmd("zincrby", activeKey(taskName), ZeroScore, <<"org", orgID>>)>>
                       \o QueueEmptyTask(queueName, taskName)
                       \o <<Exec>>]

\* queueMailroomTask as it would be pushing at the head of the contact list
queueMailroomTask_LPush(taskType, orgID, contactID, body, now) ==
    LET eventJSON == MarshalTask(mrTask(taskType, orgID, body, now))
        contactJSON == MarshalTask(mrTask("handle_contact_event", orgID,
                                          mrContactTask(contactID), now))
    IN  IF eventJSON.err \/ contactJSON.err THEN [err |-> TRUE, cmds |-> <<>>]
        ELSE [err |-> FALSE,
              cmds |-> <<Multi,
                         Cmd("lpush", contactQueueKey(orgID, contactID), ZeroScore, eventJSON.json),
                         Cmd("zadd", orgQueueKey("handler", orgID),
                             Fmt5(epochFloat(now, OffsetSeconds)), contactJSON.json),
                         Cmd("zincrby", activeKey("handler"), ZeroScore, <<"org", orgID>>),
                         Exec>>]

\* queueMailroomTask as it would be counting the enqueue in the active set
queueMailroomTask_IncrActive(taskType, orgID, contactID, body, now) ==
    LET eventJSON == MarshalTask(mrTask(taskType, orgID, body, now))
        contactJSON == MarshalTask(mrTask("handle_contact_event", orgID,
                                          mrContactTask(contactID), now))
    IN  IF eventJSON.err \/ contactJSON.err THEN [err |-> TRUE, cmds |-> <<>>]
        ELSE [err |-> FALSE,
              cmds |-> <<Multi,
                         Cmd("rpush", contactQueueKey(orgID, contactID), ZeroScore, eventJSON.json),
                         Cmd("zadd", orgQueueKey("handler", orgID),
                             Fmt5(epochFloat(now, OffsetSeconds)), contactJSON.json),
                         Cmd("zincrby", activeKey("handler"), [s |-> 1, f |-> 0], <<"org", orgID>>),
                         Exec>>]

\* queueMailroomTask as it would be with the multi/exec bracket left out
queueMailroomTask_NoMulti(taskType, orgID, contactID, body, now) ==
    LET eventJSON == MarshalTask(mrTask(taskType, orgID, body, now))
        contactJSON == MarshalTask(mrTask("handle_contact_event", orgID,
                                          mrContactTask(contactID), now))
    IN  IF eventJSON.err \/ contactJSON.err THEN [err |-> TRUE, cmds |-> <<>>]
        ELSE [err |-> FALSE,
              cmds |-> <<Cmd("rpush", contactQueueKey(orgID, contactID), ZeroScore, eventJSON.json),
                         Cmd("zadd", orgQueueKey("handler", orgID),
                             Fmt5(epochFloat(now, OffsetSeconds)), contactJSON.json),
                         Cmd("zincrby", activeKey("handler"), ZeroScore, <<"org", orgID>>),
                         Exec>>]

\* queueMailroomTask: the commands it sends, or err when a task cannot be encoded
queueMailroomTask(taskType, orgID, contactID, body, now) ==
    LET eventJSON == MarshalTask(mrTask(taskType, orgID, body, now))
        contactJSON == MarshalTask(mrTask("handle_contact_event", orgID,
                                          mrContactTask(contactID), now))
    IN  IF eventJSON.err \/ contactJSON.err THEN [err |-> TRUE, cmds |-> <<>>]
        ELSE [err |-> FALSE,
              cmds |-> <<Multi,
                         Cmd("rpush", contactQueueKey(orgID, contactID), ZeroScore, eventJSON.json),
                         Cmd("zadd", orgQueueKey("handler", orgID),
                             Fmt5(epochFloat(now, OffsetSeconds)), contactJSON.json),
                         Cmd("zincrby", activeKey("handler"), ZeroScore, <<"org", orgID>>),
                         Exec>>]

(***************************************************************************)
(* The callers of the two enqueues: queueMsgHandling for a message that    *)
(* was written, queueChannelEvent for a channel event.                     *)
(***************************************************************************)
\* courier.ChannelEventType: the four types the gateway declares, and a type it
\* does not know
EventTypes == {"stop_contact", "welcome_message", "referral", "new_conversation", "other"}

\* the task bodies the callers build: maps of ids, strings and booleans
msgEventBody(orgID, contactID) ==
    [id |-> 1, extra |-> "none", org_id |-> orgID, contact_id |-> contactID]
legacyMsgBody(contactID) ==
    [id |-> 1, extra |-> "none", type |-> "msg", contact_id |-> contactID]
mailroomEventBody(orgID, contactID) ==
    [id |-> 1, extra |-> "none", org_id |-> orgID, contact_id |-> contactID]
legacyEventBody(contactID) ==
    [id |-> 1, extra |-> "none", type |-> "channel_event", contact_id |-> contactID]

\* queueMsgHandling as it would be giving the legacy enqueue no sub-queue
queueMsgHandling_NoSubQueue(flowServerEnabled, orgID, contactID, now) ==
    IF flowServerEnabled
    THEN queueMailroomTask("msg_event", orgID, contactID, msgEventBody(orgID, contactID), now)
    ELSE queueTask("handler", "handle_event_task", orgID, "", legacyMsgBody(contactID), now)

\* queueMsgHandling: mailroom for a flow-server-enabled org, else the legacy queue
queueMsgHandling(flowServerEnabled, orgID, contactID, now) ==
    IF flowServerEnabled
    THEN queueMailroomTask("msg_event", orgID, contactID, msgEventBody(orgID, contactID), now)
    ELSE queueTask("handler", "handle_event_task", orgID, subQueueKey(contactID),
                   legacyMsgBody(contactID), now)

\* the mailroom task type of an event type, "" for a type the switch does not list
mailroomTaskType(eventType) ==
    CASE eventType = "stop_contact" -> "stop_event"
      [] eventType = "welcome_message" -> "welcome_message"
      [] eventType = "referral" -> "referral"
      [] eventType = "new_conversation" -> "new_conversation"
      [] OTHER -> ""

\* queueChannelEvent as it would be sending an unlisted event type to the legacy queue
queueChannelEvent_DefaultToLegacy(flowServerEnabled, eventType, orgID, contactID, now) ==
    IF flowServerEnabled /\ mailroomTaskType(eventType) # ""
    THEN queueMailroomTask(mailroomTaskType(eventType), orgID, contactID,
                           mailroomEventBody(orgID, contactID), now)
    ELSE queueTask("handler", "handle_event_task", orgID, "", legacyEventBody(contactID), now)

\* queueChannelEvent: for a flow-server-enabled org the switch on the event
\* type, with its default returning the error; else the legacy queue
queueChannelEvent(flowServerEnabled, eventType, orgID, contactID, now) ==
    IF flowServerEnabled
    THEN IF mailroomTaskType(eventType) # ""
         THEN queueMailroomTask(mailroomTaskType(eventType), orgID, contactID,
                                mailroomEventBody(orgID, contactID), now)
         ELSE [err |-> TRUE, cmds |-> <<>>]
    ELSE queueTask("handler", "handle_event_task", orgID, "", legacyEventBody(contactID), now)

(***************************************************************************)
(* Outbound: SendMsg of the two Chat API adapters.  Variant "json" is the   *)
(* adapter that posts JSON to send_url, variant "form" the one that posts   *)
(* forms and carries quick replies.                                         *)
(***************************************************************************)
Variants == {"json", "form"}

\* an attachment "content_type:url", as handlers.SplitAttachment splits it
Attachments ==
    {[mediaType |-> "image/jpeg", mediaURL |-> "https://foo.bar/image.jpg"],
     [mediaType |-> "video/mp4", mediaURL |-> "https://foo.bar/video.mp4"],
     [mediaType |-> "application/pdf", mediaURL |-> "https://foo.bar/doc.pdf"]}

\* strings.Split(mediaType, "/")[0]
MediaPrefix(mediaType) ==
    CASE mediaType = "image/jpeg" -> "image"
      [] mediaType = "video/mp4" -> "video"
      [] mediaType = "audio/mpeg" -> "audio"
      [] OTHER -> "application"

OutMsgs ==
    [Text : {"", "Simple Message"},
     Attachments : UNION {[1..k -> Attachments] : k \in 0..MaxAttachments},
     QuickReplies : {<<>>, <<"Yes", "No">>}]

\* the channel configs: complete, without auth_token, without send_url
Configs == [auth_token : {"", "authtoken"}, send_url : {"", "https://send.url"}]

\* what the provider may answer to one part; id "" and message_id 0: the key is absent
JSONResponses ==
    {[code |-> 200, ok |-> "absent", id |-> "x1", message_id |-> 0],
     [code |-> 200, ok |-> "absent", id |-> "x2", message_id |-> 0],
     [code |-> 200, ok |-> "absent", id |-> "", message_id |-> 0],
     [code |-> 500, ok |-> "absent", id |-> "", message_id |-> 0],
     [code |-> 500, ok |-> "absent", id |-> "x1", message_id |-> 0]}

FormResponses ==
    {[code |-> 200, ok |-> "true", id |-> "", message_id |-> 1],
     [code |-> 200, ok |-> "true", id |-> "", message_id |-> 2],
     [code |-> 200, ok |-> "true", id |-> "", message_id |-> 0],
     [code |-> 200, ok |-> "false", id |-> "", message_id |-> 1],
     [code |-> 500, ok |-> "absent", id |-> "", message_id |-> 0],
     [code |-> 500, ok |-> "true", id |-> "", message_id |-> 1]}

Responses(v) == IF v = "json" THEN JSONResponses ELSE FormResponses

\* courier.NewChannelLogFromRR("Message Sent", ...).WithError("Message Send Error", err)
NewChannelLogFromRR(resp) ==
    [description |-> "Message Sent", code |-> resp.code,
     err |-> IF resp.code = 200 THEN "" ELSE "Message Send Error"]

\* courier.NewChannelLog("Unknown media type: " + mediaType, ..., NilStatusCode, ..., err)
NewChannelLog(mediaType) ==
    [description |-> "Unknown media type: " \o mediaType, code |-> 0,
     err |-> "unknown media type: " \o mediaType]

\* sendMsgPart of the JSON adapter: the part succeeded when the body holds an id
sendMsgPartJSON(resp) ==
    IF resp.id = ""
    THEN [externalID |-> "", log |-> NewChannelLogFromRR(resp), err |-> "no 'id' in response"]
    ELSE [externalID |-> resp.id, log |-> NewChannelLogFromRR(resp), err |-> "nil"]

\* sendMsgPart of the form adapter: ok must be true and result.message_id present
sendMsgPart(resp) ==
    IF resp.ok # "true"
    THEN [externalID |-> "", log |-> NewChannelLogFromRR(resp), err |-> "response not 'ok'"]
    ELSE IF resp.message_id = 0
    THEN [externalID |-> "", log |-> NewChannelLogFromRR(resp),
          err |-> "no 'result.message_id' in response"]
    ELSE [externalID |-> Itoa(resp.message_id), log |-> NewChannelLogFromRR(resp), err |-> "nil"]

SendPart(v, resp) == IF v = "json" THEN sendMsgPartJSON(resp) ELSE sendMsgPart(resp)

\* the reply_markup a part of the form adapter carries
ReplyMarkup(replies) == IF replies = "" THEN "{\"remove_keyboard\":true}" ELSE replies

\* json.Marshal(moKeyboard{true, true, [][]moKey{keys}}) for the quick replies
Keyboard(qrs) == IF Len(qrs) > 0 THEN "{\"keyboard\":[[\"Yes\"],[\"No\"]]}" ELSE ""

\* MsgStatus.SetExternalID(id)
SetExternalID(status, id) == [status EXCEPT !.externalID = id]

\* MsgStatus.AddLog(log)
AddLog(status, log) == [status EXCEPT !.logs = Append(@, log)]

\* Backend.NewMsgStatusForID(channel, id, courier.MsgErrored)
NewMsgStatusForID(st) == [status |-> st, externalID |-> "", logs |-> <<>>]

IdleSend ==
    [pc |-> "idle", variant |-> "json",
     conf |-> [auth_token |-> "authtoken", send_url |-> "https://send.url"],
     msg |-> [Text |-> "", Attachments |-> <<>>, QuickReplies |-> <<>>],
     k |-> 1, caption |-> "", replies |-> "", hasError |-> TRUE,
     status |-> NewMsgStatusForID("none"), ret |-> "none", http |-> <<>>, parts |-> <<>>]

\* SendMsg as it would be without the checks of the channel config
SendSetup_NoConfigCheck(v, msg, conf) ==
    [IdleSend EXCEPT !.variant = v, !.msg = msg, !.conf = conf,
                     !.pc = "text",
                     !.caption = IF Len(msg.Attachments) = 1 THEN msg.Text ELSE "",
                     !.status = NewMsgStatusForID("E"),
                     !.replies = IF v = "form" THEN Keyboard(msg.QuickReplies) ELSE ""]

\* the config checks and the locals set up before the first part
SendSetup(v, msg, conf) ==
    LET st == [IdleSend EXCEPT !.variant = v, !.msg = msg, !.conf = conf]
    IN  IF conf.auth_token = ""
        THEN [st EXCEPT !.pc = "done", !.ret = "invalid auth token config"]
        ELSE IF v = "json" /\ conf.send_url = ""
        THEN [st EXCEPT !.pc = "done", !.ret = "invalid send url config"]
        ELSE [st EXCEPT !.pc = "text",
                        !.caption = IF Len(msg.Attachments) = 1 THEN msg.Text ELSE "",
                        !.status = NewMsgStatusForID("E"),
                        !.hasError = TRUE,
                        !.replies = IF v = "form" THEN Keyboard(msg.QuickReplies) ELSE ""]

\* the bookkeeping after a part as it would be without status.AddLog(log)
RecordPart_NoLog(st, r) ==
    [st EXCEPT !.status = SetExternalID(st.status, r.externalID),
               !.hasError = (r.err # "nil")]

\* externalID, log, err := h.sendMsgPart(...); status.SetExternalID(externalID);
\* hasError = err != nil; status.AddLog(log)
RecordPart(st, r) ==
    [st EXCEPT !.status = AddLog(SetExternalID(st.status, r.externalID), r.log),
               !.hasError = (r.err # "nil")]

\* the HTTP request of one part and its outcome, kept as history
Requested(st, kind, path, body, caption, resp, r) ==
    [st EXCEPT !.http = Append(@, [path |-> path, body |-> body, caption |-> caption,
                                    reply_markup |-> IF st.variant = "form"
                                                       THEN ReplyMarkup(st.replies) ELSE "",
                                    code |-> resp.code, resp |-> resp]),
               !.parts = Append(@, [kind |-> kind, sent |-> TRUE, ok |-> (r.err = "nil"),
                                    externalID |-> r.externalID])]

\* the text part as it would be sent whenever there is text, caption or not
TextPart_AlwaysSent(st, resp) ==
    IF st.msg.Text # ""
    THEN LET r == SendPart(st.variant, resp)
             done == RecordPart(Requested(st, "text", "sendMessage", st.msg.Text, "",
                                          resp, r), r)
         IN  [done EXCEPT !.replies = "", !.pc = "attachments"]
    ELSE [st EXCEPT !.pc = "attachments"]

\* the text part, sent unless the text travels as a caption
TextPart(st, resp) ==
    IF st.msg.Text # "" /\ st.caption = ""
    THEN LET r == SendPart(st.variant, resp)
             done == RecordPart(Requested(st, "text", "sendMessage", st.msg.Text, "",
                                          resp, r), r)
         IN  [done EXCEPT !.replies = "", !.pc = "attachments"]
    ELSE [st EXCEPT !.pc = "attachments"]

\* the API method an attachment is sent with, "" for a media type the adapter does not know
SendPath(v, mediaType) ==
    LET prefix == MediaPrefix(mediaType)
    IN  IF v = "json" THEN (IF prefix = "image" THEN "sendFile" ELSE "")
        ELSE CASE prefix = "image" -> "sendPhoto"
               [] prefix = "video" -> "sendVideo"
               [] prefix = "audio" -> "sendAudio"
               [] OTHER -> ""

\* the attachments loop as it would be passing over an unknown media type in silence
AttachmentPart_SkipUnknown(st, resp) ==
    LET attachment == st.msg.Attachments[st.k]
        path == SendPath(st.variant, attachment.mediaType)
        after ==
            IF path # ""
            THEN LET r == SendPart(st.variant, resp)
                 IN  RecordPart(Requested(st, "attachment", path, attachment.mediaURL,
                                          st.caption, resp, r), r)
            ELSE [st EXCEPT !.parts = Append(@, [kind |-> "attachment", sent |-> FALSE,
                                                 ok |-> FALSE, externalID |-> ""])]
    IN  [after EXCEPT !.k = @ + 1, !.replies = ""]

\* one turn of the attachments loop
AttachmentPart(st, resp) ==
    LET attachment == st.msg.Attachments[st.k]
        path == SendPath(st.variant, attachment.mediaType)
        after ==
            IF path # ""
            THEN LET r == SendPart(st.variant, resp)
                 IN  RecordPart(Requested(st, "attachment", path, attachment.mediaURL,
                                          st.caption, resp, r), r)
            ELSE [st EXCEPT !.status = AddLog(st.status, NewChannelLog(attachment.mediaType)),
                            !.hasError = TRUE,
                            !.parts = Append(@, [kind |-> "attachment", sent |-> FALSE,
                                                 ok |-> FALSE, externalID |-> ""])]
    IN  [after EXCEPT !.k = @ + 1, !.replies = ""]

\* if !hasError { status.SetStatus(courier.MsgWired) }; return status, nil
SendResult(st) ==
    [st EXCEPT !.status.status = IF ~st.hasError THEN "W" ELSE @,
               !.pc = "done", !.ret = "nil"]

\* what the driver records for the message: an error returned by SendMsg is
\* recorded as an errored status, a returned status as it is
Surface(st) == IF st.ret # "nil" THEN "E" ELSE st.status.status

SInit == snd = IdleSend

SendMsg ==
    /\ snd.pc = "idle"
    /\ \E v \in Variants, msg \in OutMsgs, conf \in Configs :
         /\ v = "json" => msg.QuickReplies = <<>>
         /\ snd' = SendSetup(v, msg, conf)
    /\ UNCHANGED <<qvars, rvars, fvars>>

SendText ==
    /\ snd.pc = "text"
    /\ \E resp \in Responses(snd.variant) : snd' = TextPart(snd, resp)
    /\ UNCHANGED <<qvars, rvars, fvars>>

SendAttachment ==
    /\ snd.pc = "attachments"
    /\ snd.k <= Len(snd.msg.Attachments)
    /\ \E resp \in Responses(snd.variant) : snd' = AttachmentPart(snd, resp)
    /\ UNCHANGED <<qvars, rvars, fvars>>

SendReturn ==
    /\ snd.pc = "attachments"
    /\ snd.k > Len(snd.msg.Attachments)
    /\ snd' = SendResult(snd)
    /\ UNCHANGED <<qvars, rvars, fvars>>

(***************************************************************************)
(* The Redis server.                                                       *)
(***************************************************************************)
ListGet(ls, k) == IF k \in DOMAIN ls THEN ls[k] ELSE <<>>
ListPut(ls, k, v) == [x \in DOMAIN ls \cup {k} |-> IF x = k THEN v ELSE ls[x]]

ZHas(zs, k, m) == \E e \in zs : e.key = k /\ e.member = m
ZScore(zs, k, m) == (CHOOSE e \in zs : e.key = k /\ e.member = m).score
ScoreAdd(a, b) ==
    [s |-> a.s + b.s + ((a.f + b.f) \div 100000), f |-> (a.f + b.f) % 100000]
ZPut(zs, k, m, sc) ==
    {e \in zs : ~(e.key = k /\ e.member = m)} \cup {[key |-> k, member |-> m, score |-> sc]}

\* one write command applied to the database [zsets, lists]
ApplyCmd(db, cmd) ==
    CASE cmd.op = "zadd" ->
            [db EXCEPT !.zsets = ZPut(db.zsets, cmd.key, cmd.member, cmd.score)]
      [] cmd.op = "zincrby" ->
            \* a member's score grows by the increment, a new member starts from 0
            [db EXCEPT !.zsets =
                IF ZHas(db.zsets, cmd.key, cmd.member)
                THEN ZPut(db.zsets, cmd.key, cmd.member,
                          ScoreAdd(ZScore(db.zsets, cmd.key, cmd.member), cmd.score))
                ELSE ZPut(db.zsets, cmd.key, cmd.member, cmd.score)]
      [] cmd.op = "rpush" ->
            [db EXCEPT !.lists = ListPut(db.lists, cmd.key,
                                         Append(ListGet(db.lists, cmd.key), cmd.member))]
      [] cmd.op = "lpush" ->
            [db EXCEPT !.lists = ListPut(db.lists, cmd.key,
                                         <<cmd.member>> \o ListGet(db.lists, cmd.key))]
      [] OTHER -> db

RECURSIVE ApplyAll(_, _)
ApplyAll(db, cmds) ==
    IF cmds = <<>> THEN db ELSE ApplyAll(ApplyCmd(db, Head(cmds)), Tail(cmds))

\* The server reads the commands of one connection up to the first that takes
\* effect on the database: after MULTI it only queues (tx) until EXEC, which
\* applies every queued command with no other client in between; outside MULTI
\* each write takes effect as it is read, and EXEC is answered with an error.
RECURSIVE ServerRun(_, _, _, _)
ServerRun(db, im, tx, pp) ==
    IF pp = <<>>
    THEN [db |-> db, pipe |-> pp, n |-> 0, exec |-> "none"]
    ELSE LET cmd == Head(pp)
         IN  CASE cmd.op = "multi" -> ServerRun(db, TRUE, <<>>, Tail(pp))
               [] cmd.op = "exec" /\ im ->
                    [db |-> ApplyAll(db, tx), pipe |-> Tail(pp), n |-> Len(tx), exec |-> "ok"]
               [] cmd.op = "exec" /\ ~im ->
                    [db |-> db, pipe |-> Tail(pp), n |-> 0, exec |-> "err"]
               [] OTHER ->
                    IF im THEN ServerRun(db, im, Append(tx, cmd), Tail(pp))
                    ELSE [db |-> ApplyCmd(db, cmd), pipe |-> Tail(pp), n |-> 1, exec |-> "none"]

(***************************************************************************)
(* Actions of the task queue.                                              *)
(***************************************************************************)
\* how a call came about: through which caller, with which org flag and event
\* type, for which contact; Direct for a call made to the enqueue itself
Direct == [fn |-> "", flowServerEnabled |-> FALSE, eventType |-> "", contactID |-> 0]

QInit ==
    /\ clock = [s |-> 0, us |-> 0]
    /\ zsets = {}
    /\ lists = [k \in {} |-> <<>>]
    /\ qpc = [c \in Calls |-> "idle"]
    /\ qcall = [c \in Calls |-> [fn |-> "none", encodable |-> TRUE, orgID |-> 0, subQueue |-> "",
                                  via |-> Direct]]
    /\ pipe = [c \in Calls |-> <<>>]
    /\ qret = [c \in Calls |-> "none"]
    /\ sent = [c \in Calls |-> <<>>]
    /\ applied = [c \in Calls |-> 0]
    /\ execOrder = <<>>

\* the call's marshalling and rc.Send's, up to the flush of rc.Do("exec");
\* now is what time.Now() returned to it, r what the function computed: err, or
\* the commands it wrote
Issue(c, via, fn, orgID, subQueue, body, now, r) ==
    /\ qpc[c] = "idle"
    /\ \A d \in Calls : d < c => qpc[d] # "idle"
    /\ qcall' = [qcall EXCEPT ![c] = [fn |-> fn, encodable |-> body.extra # "chan",
                                       orgID |-> orgID, subQueue |-> subQueue,
                                       via |-> via]]
    /\ IF r.err
         THEN /\ qpc' = [qpc EXCEPT ![c] = "done"]
              /\ qret' = [qret EXCEPT ![c] = "err"]
              /\ UNCHANGED <<clock, pipe, sent>>
         ELSE /\ qpc' = [qpc EXCEPT ![c] = "flushed"]
              /\ clock' = now
              /\ pipe' = [pipe EXCEPT ![c] = r.cmds]
              /\ sent' = [sent EXCEPT ![c] = r.cmds]
              /\ UNCHANGED qret
    /\ UNCHANGED <<zsets, lists, applied, execOrder>>
    /\ UNCHANGED <<rvars, svars, fvars>>

\* time.Now() never runs backwards: a call reads the last reading or a later one
Now == {t \in Instants : ~TimeLT(t, clock)}

QueueTask(c) ==
    \E contactID \in ContactIDs, body \in Bodies, now \in Now :
      \E subQueue \in {"", subQueueKey(contactID)} :
        Issue(c, Direct, "queueTask", OrgOf(contactID), subQueue, body, now,
              queueTask("handler", "handle_event_task", OrgOf(contactID), subQueue, body, now))

QueueMailroomTask(c) ==
    \E contactID \in ContactIDs, body \in Bodies, now \in Now :
        Issue(c, Direct, "queueMailroomTask", OrgOf(contactID), "", body, now,
              queueMailroomTask("msg_event", OrgOf(contactID), contactID, body, now))

\* the callers are exercised with one contact of each org, at the time the
\* clock shows
CallerContacts == {ct \in ContactIDs : ct # 2}
CallerNow == {clock}

\* a message of contactID was written in a channel whose org has the flag or not
QueueMsgHandling(c) ==
    \E flowServerEnabled \in BOOLEAN, contactID \in CallerContacts, now \in CallerNow :
        LET orgID == OrgOf(contactID)
        IN  Issue(c, [fn |-> "queueMsgHandling", flowServerEnabled |-> flowServerEnabled,
                      eventType |-> "", contactID |-> contactID],
                  IF flowServerEnabled THEN "queueMailroomTask" ELSE "queueTask",
                  orgID, IF flowServerEnabled THEN "" ELSE subQueueKey(contactID),
                  IF flowServerEnabled THEN msgEventBody(orgID, contactID)
                                       ELSE legacyMsgBody(contactID),
                  now, queueMsgHandling(flowServerEnabled, orgID, contactID, now))

\* a channel event of contactID was written
QueueChannelEvent(c) ==
    \E flowServerEnabled \in BOOLEAN, eventType \in EventTypes,
       contactID \in CallerContacts, now \in CallerNow :
        LET orgID == OrgOf(contactID)
        IN  Issue(c, [fn |-> "queueChannelEvent", flowServerEnabled |-> flowServerEnabled,
                      eventType |-> eventType, contactID |-> contactID],
                  IF ~flowServerEnabled THEN "queueTask"
                  ELSE IF mailroomTaskType(eventType) # "" THEN "queueMailroomTask" ELSE "none",
                  orgID, "",
                  IF flowServerEnabled THEN mailroomEventBody(orgID, contactID)
                                       ELSE legacyEventBody(contactID),
                  now, queueChannelEvent(flowServerEnabled, eventType, orgID, contactID, now))

\* the server serves connection c
RedisStep(c) ==
    /\ qpc[c] = "flushed"
    /\ pipe[c] # <<>>
    /\ LET r == ServerRun([zsets |-> zsets, lists |-> lists], FALSE, <<>>, pipe[c])
       IN  /\ pipe' = [pipe EXCEPT ![c] = r.pipe]
           /\ zsets' = r.db.zsets
           /\ lists' = r.db.lists
           /\ applied' = [applied EXCEPT ![c] = @ + r.n]
           /\ execOrder' = IF r.exec = "ok" THEN Append(execOrder, c) ELSE execOrder
           \* rc.Do("exec") returns with the reply to EXEC
           /\ qpc' = [qpc EXCEPT ![c] = IF r.exec = "none" THEN @ ELSE "done"]
           /\ qret' = [qret EXCEPT ![c] =
                          CASE r.exec = "ok" -> "nil" [] r.exec = "err" -> "err" [] OTHER -> @]
    /\ UNCHANGED <<clock, qcall, sent>>
    /\ UNCHANGED <<rvars, svars, fvars>>

\* the transaction fails: the connection breaks before the server has read EXEC,
\* the server discards what it queued and rc.Do returns the error
ConnFail(c) ==
    /\ qpc[c] = "flushed"
    /\ pipe[c] # <<>>
    /\ pipe' = [pipe EXCEPT ![c] = <<>>]
    /\ qpc' = [qpc EXCEPT ![c] = "done"]
    /\ qret' = [qret EXCEPT ![c] = "err"]
    /\ UNCHANGED <<clock, zsets, lists, qcall, sent, applied, execOrder>>
    /\ UNCHANGED <<rvars, svars, fvars>>

QNext ==
    \/ \E c \in Calls : QueueTask(c)
    \/ \E c \in Calls : QueueMailroomTask(c)
    \/ \E c \in Calls : RedisStep(c)
    \/ \E c \in Calls : ConnFail(c)

(***************************************************************************)
(* Inbound webhooks: payloads.                                             *)
(***************************************************************************)
Reqs == 1..NReqs
MsgIDs == {"m1", "m2"}
AckIDs == {"o1", "o2"}
\* an author the WhatsApp URN can be built from, and one it cannot
Authors == {"17472822486@c.us", "nobody@c.us"}

\* type moMessage struct (the fields that decide the handler's path)
moMessage == [ID : MsgIDs, FromMe : {FALSE}, Author : Authors]
                \cup [ID : {"m1"}, FromMe : {TRUE}, Author : Authors]
\* type moAck struct
moAck == [ID : AckIDs, Status : {"sent", "delivered", "viewed"}]

SeqsUpTo(S, n) == UNION {[1..k -> S] : k \in 0..n}

\* type moPayload struct, and the request body it was decoded from
moPayload ==
    {[json |-> TRUE, InstanceID |-> "79926", Messages |-> ms, Ack |-> as] :
        ms \in SeqsUpTo(moMessage, MaxEvents), as \in SeqsUpTo(moAck, MaxEvents)}

Payloads ==
    {p \in moPayload : Len(p.Messages) + Len(p.Ack) <= MaxEvents}
      \cup {[json |-> TRUE, InstanceID |-> "", Messages |-> ms, Ack |-> <<>>] :
                ms \in SeqsUpTo([ID : {"m1"}, FromMe : {FALSE}, Author : {"17472822486@c.us"}], 1)}
      \cup {[json |-> FALSE, InstanceID |-> "", Messages |-> <<>>, Ack |-> <<>>]}

\* handlers.DecodeAndValidateJSON(payload, r): the body must be JSON and
\* InstanceID, tagged validate:"required", must not be empty
DecodeAndValidateJSON(p) ==
    IF ~p.json THEN "unable to parse request JSON"
    ELSE IF p.InstanceID = "" THEN "request JSON doesn't match required schema"
    ELSE "nil"

\* urns.NewWhatsAppURN(strings.Replace(author, "@c.us", "", 1)): digits only
NewWhatsAppURN(author) ==
    IF author = "17472822486@c.us"
    THEN [err |-> "nil", urn |-> "whatsapp:17472822486"]
    ELSE [err |-> "invalid whatsapp id", urn |-> ""]

(***************************************************************************)
(* The backend port (courier.Backend).                                     *)
(***************************************************************************)
Range(f) == {f[x] : x \in DOMAIN f}

\* the order of the status axis: queued, wired, sent, delivered
StatusRank(st) == CASE st = "Q" -> 1 [] st = "W" -> 2 [] st = "S" -> 3 [] st = "D" -> 4 [] OTHER -> 0

\* Backend.NewIncomingMsg(channel, urn, text).WithExternalID(id)...
NewIncomingMsg(urn, id) == [kind |-> "msg", id |-> id, urn |-> urn, seen |-> FALSE, status |-> ""]

\* Backend.CheckExternalIDSeen(ev): the event, annotated when the cache holds its id
CheckExternalIDSeen(cache, ev) == [ev EXCEPT !.seen = ev.id \in cache]

\* Backend.WriteMsg(ctx, ev): persists the message and enqueues its handoff
\* task, or fails and changes nothing; a second row for an external id collides
\* with the store's unique constraint: nothing is written, and the call either
\* reports the collision (dupErr) or returns nil
WriteMsg(rs, hs, ev, fail, dupErr) ==
    IF fail THEN [rows |-> rs, handoff |-> hs, err |-> "backend failure"]
    ELSE IF ev.id \in Range(rs)
    THEN [rows |-> rs, handoff |-> hs, err |-> IF dupErr THEN "unique constraint" ELSE "nil"]
    ELSE [rows |-> Append(rs, ev.id), handoff |-> Append(hs, ev.id), err |-> "nil"]

\* Backend.WriteExternalIDSeen(ev)
WriteExternalIDSeen(cache, ev) == cache \cup {ev.id}

\* Backend.NewMsgStatusForExternalID(channel, id, status)
NewMsgStatusForExternalID(id, status) ==
    [kind |-> "status", id |-> id, urn |-> "", seen |-> FALSE, status |-> status]

\* Backend.WriteMsgStatus as it would be storing whatever status it is given
WriteMsgStatus_Overwrite(os, ev, fail) ==
    IF fail THEN [outStatus |-> os, err |-> "backend failure"]
    ELSE IF ev.id \notin DOMAIN os THEN [outStatus |-> os, err |-> "ErrMsgNotFound"]
    ELSE [outStatus |-> [os EXCEPT ![ev.id] = ev.status], err |-> "nil"]

\* Backend.WriteMsgStatus(ctx, ev): ErrMsgNotFound for an unknown message; else
\* the status is stored unless that would move it backwards
WriteMsgStatus(os, ev, fail) ==
    IF fail THEN [outStatus |-> os, err |-> "backend failure"]
    ELSE IF ev.id \notin DOMAIN os THEN [outStatus |-> os, err |-> "ErrMsgNotFound"]
    ELSE [outStatus |-> [os EXCEPT ![ev.id] =
                            IF StatusRank(ev.status) > StatusRank(@) THEN ev.status ELSE @],
          err |-> "nil"]

(***************************************************************************)
(* receiveMessage.  Backend calls are the handler's suspension points: one *)
(* action runs the handler from one backend call to the next.              *)
(***************************************************************************)
NoEvent == [kind |-> "none", id |-> "", urn |-> "", seen |-> FALSE, status |-> ""]

IdleReq ==
    [pc |-> "idle", payload |-> [json |-> FALSE, InstanceID |-> "", Messages |-> <<>>, Ack |-> <<>>],
     i |-> 1, j |-> 1, event |-> NoEvent, events |-> <<>>, data |-> <<>>,
     code |-> 0, message |-> "", ret |-> "none", log |-> <<>>, prior |-> {}]

\* an entry of a request's log of backend calls
Call(op, id, arg, res) == [op |-> op, id |-> id, arg |-> arg, res |-> res]

\* the items of the response envelope
NewMsgReceiveData(ev) == [type |-> "msg", id |-> ev.id, text |-> ""]
NewStatusData(ev) == [type |-> "status", id |-> ev.id, text |-> ev.status]
NewInfoData(info) == [type |-> "info", id |-> "", text |-> info]

\* handlers.WriteAndLogRequestError: 400 and the error envelope
WriteAndLogRequestError(rq, err) ==
    [rq EXCEPT !.pc = "done", !.code = 400, !.message = "Error",
               !.data = <<[type |-> "error", id |-> "", text |-> err]>>, !.ret = "err"]

\* handlers.WriteAndLogRequestIgnored: 200 and the "ignored" envelope
WriteAndLogRequestIgnored(rq, why) ==
    [rq EXCEPT !.pc = "done", !.code = 200, !.message = "Ignored",
               !.data = <<NewInfoData(why)>>, !.ret = "nil"]

\* courier.WriteDataResponse(ctx, w, http.StatusOK, "Events Handled", data)
WriteDataResponse(rq) ==
    [rq EXCEPT !.pc = "done", !.code = 200, !.message = "Events Handled", !.ret = "nil"]

\* return nil, err: the handler writes no response of its own
ReturnError(rq) == [rq EXCEPT !.pc = "done", !.ret = "err"]

\* the head of receiveMessage as it would be going on after a failed decode
Decode_IgnoreError(p) ==
    LET rq == [IdleReq EXCEPT !.payload = p, !.prior = accepted]
    IN  IF p.InstanceID = "" /\ p.json
        THEN WriteAndLogRequestIgnored(rq, "Ignoring request, no message")
        ELSE [rq EXCEPT !.pc = "messages"]

\* the request arrives: decode and validate, then the instance check
Decode(p) ==
    LET rq == [IdleReq EXCEPT !.payload = p, !.prior = accepted]
        err == DecodeAndValidateJSON(p)
    IN  IF err # "nil" THEN WriteAndLogRequestError(rq, err)
        ELSE IF p.InstanceID = ""
        THEN WriteAndLogRequestIgnored(rq, "Ignoring request, no message")
        ELSE [rq EXCEPT !.pc = "messages"]

receiveMessage(r, p) ==
    /\ req' = [req EXCEPT ![r] = Decode(p)]
    /\ UNCHANGED <<rows, seenIDs, handoff, outStatus, accepted>>
    /\ UNCHANGED <<qvars, svars, fvars>>

\* the head of the messages loop as it would be marking the id seen before WriteMsg
MessagesLoopBody_MarkBeforeWrite(rq, cache) ==
    IF rq.i > Len(rq.payload.Messages) THEN [rq EXCEPT !.pc = "acks"]
    ELSE LET message == rq.payload.Messages[rq.i]
             u == NewWhatsAppURN(message.Author)
         IN  IF message.FromMe # FALSE THEN [rq EXCEPT !.i = @ + 1]
             ELSE IF u.err # "nil" THEN WriteAndLogRequestError(rq, u.err)
             ELSE LET event == CheckExternalIDSeen(cache, NewIncomingMsg(u.urn, message.ID))
                  IN  [rq EXCEPT !.event = event, !.pc = "WriteExternalIDSeen",
                                 !.log = Append(@, Call("CheckExternalIDSeen", event.id, "",
                                                        IF event.seen THEN "seen" ELSE "new"))]

\* the head of the messages loop as it would be walking the messages last to first
MessagesLoopBody_Reversed(rq, cache) ==
    IF rq.i > Len(rq.payload.Messages) THEN [rq EXCEPT !.pc = "acks"]
    ELSE LET message == rq.payload.Messages[Len(rq.payload.Messages) + 1 - rq.i]
             u == NewWhatsAppURN(message.Author)
         IN  IF message.FromMe # FALSE THEN [rq EXCEPT !.i = @ + 1]
             ELSE IF u.err # "nil" THEN WriteAndLogRequestError(rq, u.err)
             ELSE LET event == CheckExternalIDSeen(cache, NewIncomingMsg(u.urn, message.ID))
                  IN  [rq EXCEPT !.event = event, !.pc = "WriteMsg",
                                 !.log = Append(@, Call("CheckExternalIDSeen", event.id, "",
                                                        IF event.seen THEN "seen" ELSE "new"))]

\* the head of the messages loop, up to CheckExternalIDSeen
MessagesLoopBody(rq, cache) ==
    IF rq.i > Len(rq.payload.Messages) THEN [rq EXCEPT !.pc = "acks"]
    ELSE LET message == rq.payload.Messages[rq.i]
             u == NewWhatsAppURN(message.Author)
         IN  IF message.FromMe # FALSE THEN [rq EXCEPT !.i = @ + 1]
             ELSE IF u.err # "nil" THEN WriteAndLogRequestError(rq, u.err)
             ELSE LET event == CheckExternalIDSeen(cache, NewIncomingMsg(u.urn, message.ID))
                  IN  [rq EXCEPT !.event = event, !.pc = "WriteMsg",
                                 !.log = Append(@, Call("CheckExternalIDSeen", event.id, "",
                                                        IF event.seen THEN "seen" ELSE "new"))]

MessagesLoop(r) ==
    /\ req[r].pc = "messages"
    /\ req' = [req EXCEPT ![r] = MessagesLoopBody(req[r], seenIDs)]
    /\ UNCHANGED <<rows, seenIDs, handoff, outStatus, accepted>>
    /\ UNCHANGED <<qvars, svars, fvars>>

\* the check after WriteMsg as it would be with errMsg ignored
AfterWriteMsg_IgnoreError(rq, errMsg) ==
    LET logged == [rq EXCEPT !.log = Append(@, Call("WriteMsg", rq.event.id, "", errMsg))]
    IN  [logged EXCEPT !.pc = "WriteExternalIDSeen"]

\* errMsg := h.Backend().WriteMsg(ctx, event); if errMsg != nil { return nil, errMsg }
AfterWriteMsg(rq, errMsg) ==
    LET logged == [rq EXCEPT !.log = Append(@, Call("WriteMsg", rq.event.id, "", errMsg))]
    IN  IF errMsg # "nil" THEN ReturnError(logged)
        ELSE [logged EXCEPT !.pc = "WriteExternalIDSeen"]

WriteMsgStep(r) ==
    /\ req[r].pc = "WriteMsg"
    /\ \E fail \in BOOLEAN, dupErr \in BOOLEAN :
         LET w == WriteMsg(rows, handoff, req[r].event, fail, dupErr)
         IN  /\ rows' = w.rows
             /\ handoff' = w.handoff
             /\ req' = [req EXCEPT ![r] = AfterWriteMsg(req[r], w.err)]
    /\ UNCHANGED <<seenIDs, outStatus, accepted>>
    /\ UNCHANGED <<qvars, svars, fvars>>

\* h.Backend().WriteExternalIDSeen(event), then the appends that end the loop body
AfterWriteExternalIDSeen(rq) ==
    [rq EXCEPT !.log = Append(@, Call("WriteExternalIDSeen", rq.event.id, "", "nil")),
               !.events = Append(@, rq.event),
               !.data = Append(@, NewMsgReceiveData(rq.event)),
               !.i = @ + 1,
               !.pc = "messages"]

WriteExternalIDSeenStep(r) ==
    /\ req[r].pc = "WriteExternalIDSeen"
    /\ seenIDs' = WriteExternalIDSeen(seenIDs, req[r].event)
    /\ req' = [req EXCEPT ![r] = AfterWriteExternalIDSeen(req[r])]
    /\ UNCHANGED <<rows, handoff, outStatus, accepted>>
    /\ UNCHANGED <<qvars, svars, fvars>>

\* the status of an ack as it would be with sent as the default
AckStatus_SentByDefault(ack) ==
    IF ack.Status = "delivered" THEN "D" ELSE "S"

\* the canonical status of an ack
AckStatus(ack) ==
    IF ack.Status = "sent" THEN "S"
    ELSE IF ack.Status = "delivered" THEN "D"
    ELSE "Q"

\* the acks loop as it would be treating ErrMsgNotFound like any other error
AfterWriteMsgStatus_AbortOnNotFound(rq, event, err) ==
    LET logged == [rq EXCEPT !.log = Append(@, Call("WriteMsgStatus", event.id, event.status, err))]
    IN  IF err # "nil" THEN ReturnError(logged)
        ELSE [logged EXCEPT !.events = Append(@, event),
                            !.data = Append(@, NewStatusData(event)),
                            !.j = @ + 1]

\* what the acks loop does with the result of WriteMsgStatus
AfterWriteMsgStatus(rq, event, err) ==
    LET logged == [rq EXCEPT !.log = Append(@, Call("WriteMsgStatus", event.id, event.status, err))]
    IN  IF err = "ErrMsgNotFound"
        THEN [logged EXCEPT !.data = Append(@, NewInfoData("message not found, ignored")),
                            !.j = @ + 1]
        ELSE IF err # "nil" THEN ReturnError(logged)
        ELSE [logged EXCEPT !.events = Append(@, event),
                            !.data = Append(@, NewStatusData(event)),
                            !.j = @ + 1]

\* one turn of the acks loop, or the response that follows it
AcksLoop(r) ==
    /\ req[r].pc = "acks"
    /\ IF req[r].j > Len(req[r].payload.Ack)
         THEN /\ req' = [req EXCEPT ![r] = WriteDataResponse(req[r])]
              /\ accepted' = accepted \cup {e.id : e \in {x \in Range(req[r].events) : x.kind = "msg"}}
              /\ UNCHANGED outStatus
         ELSE \E fail \in BOOLEAN :
                LET ack == req[r].payload.Ack[req[r].j]
                    event == NewMsgStatusForExternalID(ack.ID, AckStatus(ack))
                    w == WriteMsgStatus(outStatus, event, fail)
                IN  /\ outStatus' = w.outStatus
                    /\ req' = [req EXCEPT ![r] = AfterWriteMsgStatus(req[r], event, w.err)]
                    /\ UNCHANGED accepted
    /\ UNCHANGED <<rows, seenIDs, handoff>>
    /\ UNCHANGED <<qvars, svars, fvars>>

RInit ==
    /\ req = [r \in Reqs |-> IdleReq]
    /\ rows = <<>>
    /\ seenIDs = {}
    /\ handoff = <<>>
    /\ outStatus \in [{"o1"} -> {"W", "S", "D"}]
    /\ accepted = {}

\* the inbound side at rest
RInit0 == RInit /\ outStatus = [x \in {"o1"} |-> "W"]

\* the request is over and its connection closed
Close(r) ==
    /\ req[r].pc = "done"
    /\ req' = [req EXCEPT ![r] = IdleReq]
    /\ UNCHANGED <<rows, seenIDs, handoff, outStatus, accepted>>
    /\ UNCHANGED <<qvars, svars, fvars>>

(***************************************************************************)
(* Inbound webhooks of the signed provider: the FreshChat handler, made    *)
(* with newHandler("FC", "FreshChat", validateSignatures), and the         *)
(* requests its tests send to it.                                          *)
(***************************************************************************)
\* the X-FreshChat-Signature headers of the tests, and a request without one
validSignature == "AhrmypOSWoewHG6L"
invalidSignature == "f7wMD1BBhcj60U0z"
Signatures == {validSignature, invalidSignature, ""}

\* the request bodies of the tests
validReceive ==
    [json |-> TRUE, id |-> "7a454fde", channel_id |-> "c8fddfaf", actor_id |-> "882f3926"]
notJSON == [json |-> FALSE, id |-> "", channel_id |-> "", actor_id |-> ""]
SignedBodies == {validReceive, notJSON}

\* the RSA check of the header against the body: validSignature is the
\* provider's signature of validReceive, and of no other body
VerifySignature(sig, body) ==
    IF sig = validSignature /\ body = validReceive THEN "nil"
    ELSE "unable to verify signature, crypto/rsa: verification error"

\* the URN of the sender, built from channel_id and actor_id
NewFreshChatURN(body) == "freshchat:" \o body.channel_id \o "/" \o body.actor_id

IdleSigned ==
    [pc |-> "idle", validateSignatures |-> FALSE, sig |-> "", body |-> notJSON,
     event |-> NoEvent, data |-> <<>>, code |-> 0, message |-> "", ret |-> "none",
     log |-> <<>>, before |-> [rows |-> <<>>, handoff |-> <<>>]]

\* the handler as it would be acting on a request without verifying it
FreshChatReceive_NoVerify(validateSignatures, sig, body, before) ==
    LET rq == [IdleSigned EXCEPT !.validateSignatures = validateSignatures, !.sig = sig,
                                 !.body = body, !.before = before]
    IN  IF ~body.json THEN WriteAndLogRequestError(rq, "unable to parse request JSON")
        ELSE [rq EXCEPT !.event = NewIncomingMsg(NewFreshChatURN(body), body.id),
                        !.pc = "WriteMsg"]

\* the handler up to its backend write: in verify mode the signature is checked
\* first, then the body is decoded and the message built
FreshChatReceive(validateSignatures, sig, body, before) ==
    LET rq == [IdleSigned EXCEPT !.validateSignatures = validateSignatures, !.sig = sig,
                                 !.body = body, !.before = before]
        err == IF validateSignatures THEN VerifySignature(sig, body) ELSE "nil"
    IN  IF err # "nil" THEN WriteAndLogRequestError(rq, err)
        ELSE IF ~body.json THEN WriteAndLogRequestError(rq, "unable to parse request JSON")
        ELSE [rq EXCEPT !.event = NewIncomingMsg(NewFreshChatURN(body), body.id),
                        !.pc = "WriteMsg"]

\* the response after WriteMsg: 200 "Message Accepted", or the error returned
MessageAccepted(rq, errMsg) ==
    LET logged == [rq EXCEPT !.log = Append(@, Call("WriteMsg", rq.event.id, "", errMsg))]
    IN  IF errMsg # "nil" THEN ReturnError(logged)
        ELSE [logged EXCEPT !.pc = "done", !.code = 200, !.message = "Message Accepted",
                            !.data = <<NewMsgReceiveData(rq.event)>>, !.ret = "nil"]

FInit == fc = IdleSigned

\* a signed webhook arrives while no other request is being handled
ReceiveSigned ==
    /\ fc.pc = "idle" /\ req[1].pc = "idle"
    /\ \E validateSignatures \in BOOLEAN, sig \in Signatures, body \in SignedBodies :
         fc' = FreshChatReceive(validateSignatures, sig, body,
                                [rows |-> rows, handoff |-> handoff])
    /\ UNCHANGED <<qvars, rvars, svars>>

SignedWriteMsg ==
    /\ fc.pc = "WriteMsg"
    /\ \E fail \in BOOLEAN, dupErr \in BOOLEAN :
         LET w == WriteMsg(rows, handoff, fc.event, fail, dupErr)
         IN  /\ rows' = w.rows
             /\ handoff' = w.handoff
             /\ fc' = MessageAccepted(fc, w.err)
    /\ UNCHANGED <<req, seenIDs, outStatus, accepted>>
    /\ UNCHANGED <<qvars, svars>>

SignedClose ==
    /\ fc.pc = "done"
    /\ fc' = IdleSigned
    /\ UNCHANGED <<qvars, rvars, svars>>

\* one webhook at a time, each with any payload
RNext ==
    \/ \E p \in Payloads : req[1].pc = "idle" /\ receiveMessage(1, p)
    \/ Close(1)
    \/ MessagesLoop(1)
    \/ WriteMsgStep(1)
    \/ WriteExternalIDSeenStep(1)
    \/ AcksLoop(1)

InitRecv == QInit /\ RInit /\ SInit /\ FInit

SpecRecv == InitRecv /\ [][RNext]_vars

\* one webhook at a time, of the Chat API (with at most one event) or of the
\* signed provider
SignedSidePayloads == {p \in Payloads : Len(p.Messages) + Len(p.Ack) <= 1}

SgNext ==
    \/ ReceiveSigned
    \/ SignedWriteMsg
    \/ SignedClose
    \/ \E p \in SignedSidePayloads :
          fc.pc = "idle" /\ req[1].pc = "idle" /\ receiveMessage(1, p)
    \/ Close(1)
    \/ MessagesLoop(1)
    \/ WriteMsgStep(1)
    \/ WriteExternalIDSeenStep(1)
    \/ AcksLoop(1)

InitSigned == QInit /\ RInit /\ SInit /\ FInit

SpecSigned == InitSigned /\ [][SgNext]_vars

\* the webhooks that deliver one inbound message
DupPayloads ==
    {p \in Payloads : /\ p.json /\ p.InstanceID # "" /\ Len(p.Messages) = 1 /\ p.Ack = <<>>
                      /\ ~p.Messages[1].FromMe
                      /\ NewWhatsAppURN(p.Messages[1].Author).err = "nil"}

\* concurrent requests, each delivering one message
DNext ==
    \/ \E r \in Reqs, p \in DupPayloads : req[r].pc = "idle" /\ receiveMessage(r, p)
    \/ \E r \in Reqs : MessagesLoop(r)
    \/ \E r \in Reqs : WriteMsgStep(r)
    \/ \E r \in Reqs : WriteExternalIDSeenStep(r)
    \/ \E r \in Reqs : AcksLoop(r)

InitDup == QInit /\ RInit /\ SInit /\ FInit

SpecDup == InitDup /\ [][DNext]_vars

(***************************************************************************)
(* The task queue alone.                                                   *)
(***************************************************************************)
InitQueue == QInit /\ RInit0 /\ SInit /\ FInit

(***************************************************************************)
(* The task queue as the backend uses it: through the two callers.         *)
(***************************************************************************)
WNext ==
    \/ \E c \in Calls : QueueMsgHandling(c)
    \/ \E c \in Calls : QueueChannelEvent(c)
    \/ \E c \in Calls : RedisStep(c)
    \/ \E c \in Calls : ConnFail(c)

InitCallers == QInit /\ RInit0 /\ SInit /\ FInit

SpecCallers == InitCallers /\ [][WNext]_vars

SpecQueue == InitQueue /\ [][QNext]_vars

(***************************************************************************)
(* One outbound message.                                                   *)
(***************************************************************************)
SNext == SendMsg \/ SendText \/ SendAttachment \/ SendReturn

InitSend == QInit /\ RInit0 /\ SInit /\ FInit

SpecSend == InitSend /\ [][SNext]_vars

(***************************************************************************)
(* Properties of the task queue.                                           *)
(***************************************************************************)
RECURSIVE Writes(_)
Writes(cmds) ==
    IF cmds = <<>> THEN <<>>
    ELSE (IF IsWrite(Head(cmds)) THEN <<Head(cmds)>> ELSE <<>>) \o Writes(Tail(cmds))

\* the database after the transactions of `order`, each applied whole, and nothing else
RECURSIVE Replay(_, _)
Replay(db, order) ==
    IF order = <<>> THEN db
    ELSE Replay(ApplyAll(db, Writes(sent[Head(order)])), Tail(order))

EmptyDb == [zsets |-> {}, lists |-> [k \in {} |-> <<>>]]

\* C1: a call that reaches Redis issues exactly one MULTI, then its writes, then
\* exactly one EXEC; a call whose body cannot be encoded issues no command; the
\* writes of a call are visible all together or not at all, and not at all when
\* the call returns an error: the database is at every moment exactly the result
\* of the transactions executed so far.
C1_AtomicEnqueue ==
    /\ \A c \in Calls :
        /\ sent[c] # <<>> =>
              /\ Head(sent[c]) = Multi
              /\ sent[c][Len(sent[c])] = Exec
              /\ CountOp(sent[c], "multi") = 1
              /\ CountOp(sent[c], "exec") = 1
              /\ CountWrites(sent[c]) = Len(sent[c]) - 2
        /\ (qpc[c] # "idle" /\ ~qcall[c].encodable) => (sent[c] = <<>> /\ qret[c] = "err")
        /\ applied[c] \in {0, CountWrites(sent[c])}
        /\ qret[c] = "err" => applied[c] = 0
        /\ qret[c] = "nil" => (sent[c] # <<>> /\ applied[c] = CountWrites(sent[c]))
    /\ [zsets |-> zsets, lists |-> lists] = Replay(EmptyDb, execOrder)

\* C1's case: one transaction failed after its commands were issued, another one
\* was executed, and the database holds the writes of the second only
C1_Witness ==
    \E c, d \in Calls :
        /\ qret[c] = "err" /\ sent[c] # <<>>
        /\ qret[d] = "nil" /\ applied[d] >= 3
        /\ zsets # {}

\* the entries rpushed to `key` by the calls of `order`, in that order
RECURSIVE Pushed(_, _)
Pushed(order, key) ==
    IF order = <<>> THEN <<>>
    ELSE LET cmds == sent[Head(order)]
             mine == IF qcall[Head(order)].fn = "queueMailroomTask" /\ cmds[2].key = key
                     THEN <<cmds[2].member>> ELSE <<>>
         IN  mine \o Pushed(Tail(order), key)

\* C2: the list c:<org>:<contact> holds exactly one event task per successful
\* queueMailroomTask call for that org and contact, in the order in which the
\* transactions were executed
C2_ContactListOrder ==
    /\ \A o \in OrgIDs, ct \in ContactIDs :
          ListGet(lists, contactQueueKey(o, ct)) = Pushed(execOrder, contactQueueKey(o, ct))
    /\ \A c \in Calls : (qret[c] = "nil") <=> (\E i \in 1..Len(execOrder) : execOrder[i] = c)
    /\ \A i, j \in 1..Len(execOrder) : execOrder[i] = execOrder[j] => i = j

\* C2's case: two concurrent calls for the same contact whose transactions were
\* executed in the opposite order of their issue, with different event tasks
C2_Witness ==
    \E o \in OrgIDs, ct \in ContactIDs :
        LET l == ListGet(lists, contactQueueKey(o, ct))
        IN  /\ Len(l) = 2 /\ l[1] # l[2]
            /\ execOrder = <<2, 1>>

(***************************************************************************)
(* Properties of receiveMessage.                                           *)
(***************************************************************************)
RECURSIVE Count(_, _)
Count(seq, x) ==
    IF seq = <<>> THEN 0 ELSE (IF Head(seq) = x THEN 1 ELSE 0) + Count(Tail(seq), x)

\* the entries of a log made by the backend calls named in ops
RECURSIVE Sel(_, _)
Sel(log, ops) ==
    IF log = <<>> THEN <<>>
    ELSE (IF Head(log).op \in ops THEN <<Head(log)>> ELSE <<>>) \o Sel(Tail(log), ops)

IsPrefix(a, b) == Len(a) <= Len(b) /\ \A k \in 1..Len(a) : a[k] = b[k]

\* C3, as claimed: a message delivered again after a delivery of it was answered
\* 200 is not written again: no WriteMsg call for it, no new row and no new
\* handoff task, and the 200 response carries an info item, not a
\* message-received item, for it
C3_DuplicateSkipsWriteMsg ==
    \A r \in Reqs :
        LET rq == req[r]
        IN  \A id \in rq.prior :
              /\ \A k \in 1..Len(rq.log) : ~(rq.log[k].op = "WriteMsg" /\ rq.log[k].id = id)
              /\ Count(rows, id) = 1 /\ Count(handoff, id) = 1
              /\ (rq.pc = "done" /\ rq.payload.InstanceID # "" /\ rq.payload.Messages # <<>>
                    /\ \A k \in 1..Len(rq.payload.Messages) :
                          rq.payload.Messages[k] =
                            [ID |-> id, FromMe |-> FALSE, Author |-> "17472822486@c.us"])
                    => (/\ rq.code = 200
                        /\ \A k \in 1..Len(rq.data) : rq.data[k].type = "info")

C5_SeenOnlyAfterWrite ==
    \A r \in Reqs :
        LET rq == req[r]
        IN  \A k \in 1..Len(rq.log) :
              /\ rq.log[k].op = "WriteExternalIDSeen" =>
                    /\ k > 1
                    /\ rq.log[k - 1].op = "WriteMsg"
                    /\ rq.log[k - 1].id = rq.log[k].id
                    /\ rq.log[k - 1].res = "nil"
              /\ (rq.log[k].op = "WriteMsg" /\ rq.log[k].res # "nil") =>
                    /\ k = Len(rq.log)
                    /\ rq.pc = "done" /\ rq.ret = "err" /\ rq.code = 0
                    /\ rq.events = SubSeq(rq.events, 1, Len(Sel(rq.log, {"WriteExternalIDSeen"})))

\* C5's case: the first of two messages was written and marked seen, WriteMsg
\* failed for the second, whose id is not in the cache, and the request is over
C5_Witness ==
    \E r \in Reqs :
        LET rq == req[r]
        IN  /\ rq.pc = "done" /\ rq.ret = "err"
            /\ Len(rq.log) = 5
            /\ rq.log[3].op = "WriteExternalIDSeen"
            /\ rq.log[5].op = "WriteMsg" /\ rq.log[5].res = "backend failure"
            /\ rq.log[5].id \notin seenIDs

\* C8, as claimed: a request answered 400 has executed no WriteMsg, no
\* WriteExternalIDSeen and no WriteMsgStatus
C8_NoWriteBefore400 ==
    \A r \in Reqs :
        req[r].code = 400 =>
            Sel(req[r].log, {"WriteMsg", "WriteExternalIDSeen", "WriteMsgStatus"}) = <<>>

\* the external ids of the messages the handler has to persist, in payload order
RECURSIVE InboundIDs(_)
InboundIDs(ms) ==
    IF ms = <<>> THEN <<>>
    ELSE (IF Head(ms).FromMe THEN <<>> ELSE <<Head(ms).ID>>) \o InboundIDs(Tail(ms))

\* the status writes the acks ask for, in payload order
RECURSIVE AckWrites(_)
AckWrites(as) ==
    IF as = <<>> THEN <<>>
    ELSE <<<<Head(as).ID, AckStatus(Head(as))>>>> \o AckWrites(Tail(as))

RECURSIVE IDsOf(_)
IDsOf(log) == IF log = <<>> THEN <<>> ELSE <<Head(log).id>> \o IDsOf(Tail(log))

RECURSIVE IDArgsOf(_)
IDArgsOf(log) ==
    IF log = <<>> THEN <<>> ELSE <<<<Head(log).id, Head(log).arg>>>> \o IDArgsOf(Tail(log))

\* the response items the backend calls of a log give rise to, in the order of the calls
RECURSIVE ItemsOf(_)
ItemsOf(log) ==
    IF log = <<>> THEN <<>>
    ELSE LET e == Head(log)
         IN  (CASE e.op = "WriteExternalIDSeen" -> <<[type |-> "msg", id |-> e.id, text |-> ""]>>
                [] e.op = "WriteMsgStatus" /\ e.res = "nil" ->
                        <<[type |-> "status", id |-> e.id, text |-> e.arg]>>
                [] e.op = "WriteMsgStatus" /\ e.res = "ErrMsgNotFound" ->
                        <<[type |-> "info", id |-> "", text |-> "message not found, ignored"]>>
                [] OTHER -> <<>>)
             \o ItemsOf(Tail(log))

\* C9: messages are persisted in the order of the messages array, acks are
\* written in the order of the ack array, after the messages, and the items of
\* the response appear in the order of processing; a 200 response means every
\* message and ack of the payload was processed
C9_DeclaredOrder ==
    \A r \in Reqs :
        LET rq == req[r]
            w == Sel(rq.log, {"WriteMsg"})
            a == Sel(rq.log, {"WriteMsgStatus"})
        IN  /\ IsPrefix(IDsOf(w), InboundIDs(rq.payload.Messages))
            /\ IsPrefix(IDArgsOf(a), AckWrites(rq.payload.Ack))
            /\ Sel(rq.log, {"WriteMsg", "WriteMsgStatus"}) = w \o a
            /\ a # <<>> => Len(w) = Len(InboundIDs(rq.payload.Messages))
            /\ rq.code # 400 /\ rq.message # "Ignored" => rq.data = ItemsOf(rq.log)
            /\ rq.message = "Events Handled" =>
                  /\ IDsOf(w) = InboundIDs(rq.payload.Messages)
                  /\ IDArgsOf(a) = AckWrites(rq.payload.Ack)

\* C9's case: a webhook with two different messages, both persisted, answered 200
C9_Witness ==
    \E r \in Reqs :
        LET rq == req[r]
        IN  /\ rq.code = 200 /\ Len(rq.data) = 2
            /\ rq.data[1].type = "msg" /\ rq.data[2].type = "msg"
            /\ rq.data[1].id = "m2" /\ rq.data[2].id = "m1"
            /\ rows = <<"m2", "m1">>

\* C10: an ack whose WriteMsgStatus returns ErrMsgNotFound gives the info item
\* "message not found, ignored" and no status event, and does not end the
\* request; any other error is the request's last backend call, the handler
\* returns it and no response is written; with no such error the request ends 200
C10_AckNotFoundIgnored ==
    \A r \in Reqs :
        LET rq == req[r]
            a == Sel(rq.log, {"WriteMsgStatus"})
            nf == Len(Sel(a, {"WriteMsgStatus"})) - Len(SelectSeq(a, LAMBDA e : e.res # "ErrMsgNotFound"))
        IN  /\ Len(SelectSeq(rq.data, LAMBDA d : d = NewInfoData("message not found, ignored"))) = nf
            /\ Len(SelectSeq(rq.events, LAMBDA e : e.kind = "status"))
                  = Len(SelectSeq(a, LAMBDA e : e.res = "nil"))
            /\ \A k \in 1..Len(rq.log) :
                  LET e == rq.log[k]
                  IN  e.op = "WriteMsgStatus" =>
                        /\ e.res = "ErrMsgNotFound" =>
                              (rq.pc = "done" => (k < Len(rq.log) \/ rq.code = 200))
                        /\ e.res \notin {"nil", "ErrMsgNotFound"} =>
                              /\ k = Len(rq.log)
                              /\ rq.pc = "done" /\ rq.ret = "err" /\ rq.code = 0
            /\ (rq.pc = "done" /\ rq.code = 200 /\ rq.message = "Events Handled") =>
                  Len(a) = Len(rq.payload.Ack)

\* C10's case: the first ack was for an unknown message, the second was written,
\* and the request ended 200 with the info item followed by the status item
C10_Witness ==
    \E r \in Reqs :
        LET rq == req[r]
        IN  /\ rq.pc = "done" /\ rq.code = 200
            /\ Len(rq.data) = 2
            /\ rq.data[1] = NewInfoData("message not found, ignored")
            /\ rq.data[2].type = "status"
            /\ Len(rq.events) = 1

(***************************************************************************)
(* Properties of SendMsg.                                                  *)
(***************************************************************************)
Returned == snd.pc = "done" /\ snd.ret = "nil"

RECURSIVE LastSuccessID(_)
LastSuccessID(parts) ==
    IF parts = <<>> THEN ""
    ELSE IF parts[Len(parts)].ok THEN parts[Len(parts)].externalID
    ELSE LastSuccessID(SubSeq(parts, 1, Len(parts) - 1))

\* C6: the status SendMsg returns for a message with at least one part is
\* wired if and only if every part succeeded; one failed part, in any
\* position, leaves it errored.
C6_WiredIffAllPartsSucceeded ==
    (Returned /\ snd.parts # <<>>) =>
        (snd.status.status = "W" <=> \A i \in 1..Len(snd.parts) : snd.parts[i].ok)

\* C7: the external id on the status SendMsg returns is the id returned by
\* the last part that succeeded; a later failing part does not erase it.
C7_ExternalIDOfLastSuccess ==
    Returned => snd.status.externalID = LastSuccessID(snd.parts)

MissingConfig ==
    \/ snd.conf.auth_token = ""
    \/ snd.variant = "json" /\ snd.conf.send_url = ""

\* C11: when auth_token (or, for the JSON adapter, send_url) is missing or
\* empty, SendMsg returns an error at once: no part is attempted, no HTTP
\* request is made, and the message is recorded as errored.
C11_ConfigErrorNoHTTP ==
    MissingConfig =>
        /\ snd.pc = "done"
        /\ snd.ret \in {"invalid auth token config", "invalid send url config"}
        /\ snd.http = <<>> /\ snd.parts = <<>> /\ snd.status.logs = <<>>
        /\ Surface(snd) = "E"

\* C11's case: a message with text and an attachment on a JSON channel that has
\* its auth_token but no send_url
C11_Witness ==
    /\ snd.pc = "done" /\ snd.variant = "json"
    /\ snd.conf.auth_token # "" /\ snd.conf.send_url = ""
    /\ snd.msg.Text # "" /\ Len(snd.msg.Attachments) = 1
    /\ snd.http = <<>>

\* C12: a well-formed payload without actionable content (no instance id, or
\* neither messages nor acks) is answered 200 with the "ignored" envelope and
\* causes no backend call.
C12_NoContentIgnored ==
    \A r \in Reqs :
        LET rq == req[r]
        IN  (/\ rq.pc = "done"
             /\ rq.payload.json
             /\ \/ rq.payload.InstanceID = ""
                \/ rq.payload.Messages = <<>> /\ rq.payload.Ack = <<>>)
            => (rq.code = 200 /\ rq.message = "Ignored" /\ rq.log = <<>>)

\* the requests SendMsg made for attachments, and the URLs they carried
AttachmentRequests == SelectSeq(snd.http, LAMBDA q : q.path # "sendMessage")

RECURSIVE RequestBodies(_)
RequestBodies(qs) == IF qs = <<>> THEN <<>> ELSE <<Head(qs).body>> \o RequestBodies(Tail(qs))

\* the URLs of the first n attachments whose media type the adapter sends
RECURSIVE KnownURLs(_, _, _)
KnownURLs(v, atts, n) ==
    IF n = 0 THEN <<>>
    ELSE KnownURLs(v, atts, n - 1)
           \o (IF SendPath(v, atts[n].mediaType) # "" THEN <<atts[n].mediaURL>> ELSE <<>>)

TextPartSent == \E i \in 1..Len(snd.http) : snd.http[i].path = "sendMessage"

\* C13 (as amended): past the text step, a separate text part has been sent if
\* and only if the text is non-empty and the attachments are not exactly one,
\* and it is the first request; the attachment requests made so far are those of
\* the attachments of a known media type, in declared order; every attachment
\* request carries the text as caption when the message has exactly one
\* attachment and an empty caption otherwise.
C13_TextFirstAttachmentsInOrder ==
    snd.pc \in {"attachments", "done"} /\ snd.ret \in {"none", "nil"} =>
        /\ TextPartSent <=> (snd.msg.Text # "" /\ Len(snd.msg.Attachments) # 1)
        /\ TextPartSent => (snd.http[1].path = "sendMessage" /\ snd.http[1].body = snd.msg.Text)
        /\ \A i \in 2..Len(snd.http) : snd.http[i].path # "sendMessage"
        /\ RequestBodies(AttachmentRequests) = KnownURLs(snd.variant, snd.msg.Attachments, snd.k - 1)
        /\ \A i \in 1..Len(AttachmentRequests) :
              AttachmentRequests[i].caption =
                  IF Len(snd.msg.Attachments) = 1 THEN snd.msg.Text ELSE ""

\* C13's cases: a text part followed by two different attachments, sent in
\* declared order
C13_Witness ==
    /\ snd.pc = "done" /\ snd.ret = "nil"
    /\ Len(snd.http) = 3 /\ snd.http[1].path = "sendMessage"
    /\ snd.http[2].body # snd.http[3].body
    /\ snd.msg.Text # ""

\* C13 as stated: whenever the message has text, the text leaves with the
\* message: as a separate part, or, with exactly one attachment, as that
\* attachment's caption.
C13_TextAlwaysTravels ==
    (snd.pc = "done" /\ snd.ret = "nil" /\ snd.msg.Text # "") =>
        /\ TextPartSent <=> Len(snd.msg.Attachments) # 1
        /\ Len(snd.msg.Attachments) = 1 =>
              \E i \in 1..Len(snd.http) : snd.http[i].caption = snd.msg.Text

\* C14: for a message with quick replies sent by the form adapter, the first
\* request actually made carries the keyboard and every later request is made
\* with the replies cleared, whatever the text and the attachments are.
C14_KeyboardOnFirstPartOnly ==
    (snd.variant = "form" /\ snd.msg.QuickReplies # <<>> /\ snd.http # <<>>) =>
        /\ snd.http[1].reply_markup = Keyboard(snd.msg.QuickReplies)
        /\ \A i \in 2..Len(snd.http) : snd.http[i].reply_markup = ReplyMarkup("")

SentParts == SelectSeq(snd.parts, LAMBDA p : p.sent)

AttemptLogs == SelectSeq(snd.status.logs, LAMBDA l : l.description = "Message Sent")

\* C15: every part reached so far was attempted at most once: there is one
\* HTTP request per sent part and never more parts than the text part and the
\* attachments walked; the status carries one ChannelLog per request, with the
\* response code of that request, so at least as many logs as parts sent.
C15_OneAttemptOneLogPerPart ==
    /\ Len(snd.http) = Len(SentParts)
    /\ Len(snd.parts) = (IF TextPartSent THEN 1 ELSE 0) + (snd.k - 1)
    /\ Len(AttemptLogs) = Len(snd.http)
    /\ \A i \in 1..Len(snd.http) : AttemptLogs[i].code = snd.http[i].code
    /\ Len(snd.status.logs) >= Len(SentParts)

\* C15's case: the first of three parts failed and the other two were still sent,
\* once each
C15_Witness ==
    /\ snd.pc = "done" /\ snd.ret = "nil"
    /\ Len(snd.http) = 3 /\ ~snd.parts[1].ok /\ snd.parts[1].sent
    /\ Len(snd.status.logs) = 3

\* the response lacks what makes it a success: a 2xx code and the marker of
\* the adapter (the id; ok = true and result.message_id)
FailedResponse(v, resp) ==
    \/ resp.code # 200
    \/ v = "json" /\ resp.id = ""
    \/ v = "form" /\ (resp.ok # "true" \/ resp.message_id = 0)

\* C16: a message sent as a single part whose response is non-2xx, or lacks
\* the success marker, is returned errored with the ChannelLog of the attempt.
C16_FailedResponseErrors ==
    (/\ snd.pc = "done" /\ snd.ret = "nil"
     /\ Len(snd.parts) = 1 /\ Len(snd.http) = 1
     /\ FailedResponse(snd.variant, snd.http[1].resp))
    => (/\ snd.status.status = "E"
        /\ Len(snd.status.logs) = 1
        /\ snd.status.logs[1].code = snd.http[1].code)

(***************************************************************************)
(* Properties of the scores.                                               *)
(***************************************************************************)
TaskNames == {"handle_event_task", "handler"}

\* the per-org queues of org o, legacy and mailroom
OrgQueueKeys(o) == {orgQueueKey(t, o) : t \in TaskNames}

\* the calls whose transaction was executed and wrote to a queue of org o
Enqueued(o) ==
    {c \in Calls : applied[c] > 0 /\
                   \E i \in 1..Len(sent[c]) : sent[c][i].op = "zadd" /\ sent[c][i].key \in OrgQueueKeys(o)}

\* the score call c wrote to its org queue
OrgScore(c) ==
    LET i == CHOOSE i \in 1..Len(sent[c]) :
                 sent[c][i].op = "zadd" /\ \E o \in OrgIDs : sent[c][i].key \in OrgQueueKeys(o)
    IN  sent[c][i].score

\* the entries queued for org o, and whether e is a head of them (lowest score)
OrgEntries(o) == {e \in zsets : e.key \in OrgQueueKeys(o)}
IsHead(e, o) == e \in OrgEntries(o) /\ \A x \in OrgEntries(o) : ~ScoreLT(x.score, e.score)

\* org a enqueued its first task, with call d, after every enqueue of org b
FreshAfterBusy(a, b, d) ==
    /\ a # b
    /\ Enqueued(a) = {d}
    /\ Enqueued(b) # {}
    /\ \A c \in Enqueued(b) : c < d

\* the head e was enqueued at an earlier time than call d read: both scores are
\* the time of their call less the same offset
HeadIsOlder(e, d) == ScoreLT(e.score, OrgScore(d))

\* C17 (as amended): every enqueue, the first of an org or not, writes its org
\* queue score as the time of the call less 10,000,000; so when an org
\* enqueues its first task after the enqueues of an active org, its score is
\* not lower than the active org's head score.
C17_SameOffsetForEveryOrg ==
    /\ \A c \in Calls : sent[c] # <<>> =>
          /\ OrgScore(c).s >= 0 - OffsetSeconds
          /\ OrgScore(c).s <= MaxClock + 1 - OffsetSeconds
    /\ \A a, b \in OrgIDs : \A d \in Calls :
          FreshAfterBusy(a, b, d) =>
              \A e \in zsets : IsHead(e, b) => ~ScoreLT(OrgScore(d), e.score)

\* C17's case: the fresh org's first task was written with a strictly higher
\* score than the head of the active org
C17_Witness ==
    \E a, b \in OrgIDs : \E d \in Calls :
        /\ FreshAfterBusy(a, b, d)
        /\ \E e \in zsets : IsHead(e, b) /\ HeadIsOlder(e, d)

\* C17 as stated: the first task of a fresh org, enqueued while the head of an
\* active org is older (by much less than 10,000,000 s), is written with a score
\* lower than that head's score by at least 10,000,000 - 1.
C17_FreshOrgSortsAhead ==
    \A a, b \in OrgIDs : \A d \in Calls :
        FreshAfterBusy(a, b, d) =>
            \A e \in zsets : (IsHead(e, b) /\ HeadIsOlder(e, d)) =>
                ~ScoreLT([s |-> e.score.s - (OffsetSeconds - 1), f |-> e.score.f], OrgScore(d))

\* the zadd commands of call c, and those of them written to key k
ZAdds(c) == SelectSeq(sent[c], LAMBDA cmd : cmd.op = "zadd")
ZAddsTo(c, k) == SelectSeq(sent[c], LAMBDA cmd : cmd.op = "zadd" /\ cmd.key = k)

\* C18: a legacy enqueue that reached Redis adds its body once to
\* handle_event_task:<org> with score now - 10,000,000 and to no queue of
\* another org; it adds the same body to the sub-queue, with a score higher by
\* exactly 10,000,000, if and only if it was called with a sub-queue key.
C18_LegacyEnqueueWrites ==
    \A c \in Calls :
        (qcall[c].fn = "queueTask" /\ sent[c] # <<>>) =>
            LET orgKey == orgQueueKey("handle_event_task", qcall[c].orgID)
                org == ZAddsTo(c, orgKey)
                sub == ZAddsTo(c, qcall[c].subQueue)
            IN  /\ Len(org) = 1
                /\ org[1].score.s >= 0 - OffsetSeconds
                /\ org[1].score.s <= MaxClock + 1 - OffsetSeconds
                /\ Len(sub) = (IF qcall[c].subQueue # "" THEN 1 ELSE 0)
                /\ Len(ZAdds(c)) = Len(org) + Len(sub)
                /\ CountOp(sent[c], "rpush") = 0
                /\ \A i \in 1..Len(sub) :
                      /\ sub[i].member = org[1].member
                      /\ sub[i].score = [s |-> org[1].score.s + OffsetSeconds, f |-> org[1].score.f]
                /\ applied[c] > 0 =>
                      /\ ZHas(zsets, orgKey, org[1].member)
                      /\ \A i \in 1..Len(sub) : ZHas(zsets, sub[i].key, sub[i].member)

\* C18's cases: a legacy enqueue with a sub-queue, executed, whose time was
\* rounded up to a whole second by %.5f, next to one without a sub-queue
C18_Witness ==
    \E c, d \in Calls :
        /\ qcall[c].fn = "queueTask" /\ qcall[c].subQueue # "" /\ applied[c] > 0
        /\ ZAddsTo(c, qcall[c].subQueue)[1].score = [s |-> 1, f |-> 0]
        /\ qcall[d].fn = "queueTask" /\ qcall[d].subQueue = "" /\ applied[d] > 0
        /\ qcall[d].orgID # qcall[c].orgID

\* the active-orgs sets, and the one call c touches
ActiveKeys == {activeKey(t) : t \in TaskNames}
ActiveKeyOf(c) ==
    activeKey(IF qcall[c].fn = "queueTask" THEN "handle_event_task" ELSE "handler")

\* C19: no step changes the score of an org that is in an active-orgs set,
\* the org of the enqueue included, or removes it; an org enters the set with
\* score 0; and once an enqueue was executed its org is a member of the set.
C19_ActiveSetUntouched ==
    /\ [](\A c \in Calls : applied[c] > 0 =>
              ZHas(zsets, ActiveKeyOf(c), <<"org", qcall[c].orgID>>))
    /\ [][/\ \A e \in zsets : e.key \in ActiveKeys => e \in zsets'
          /\ \A e \in zsets' \ zsets : e.key \in ActiveKeys => e.score = ZeroScore]_vars

\* C19's case: two enqueues of the same kind for one org were executed: the
\* second found the org in the active set and left its score at 0
C19_Witness ==
    \E c, d \in Calls :
        /\ c # d /\ applied[c] > 0 /\ applied[d] > 0
        /\ qcall[c].orgID = qcall[d].orgID /\ qcall[c].fn = qcall[d].fn
        /\ ZHas(zsets, ActiveKeyOf(c), <<"org", qcall[c].orgID>>)
        /\ ZScore(zsets, ActiveKeyOf(c), <<"org", qcall[c].orgID>>) = ZeroScore

(***************************************************************************)
(* Properties of the stored status.                                        *)
(***************************************************************************)
\* request r has just written an ack for message id with status st
JustWrote(r, id, st) ==
    /\ Len(req'[r].log) = Len(req[r].log) + 1
    /\ req'[r].log[Len(req'[r].log)] = Call("WriteMsgStatus", id, st, "nil")

VerificationError ==
    [type |-> "error", id |-> "", text |-> "unable to verify signature, crypto/rsa: verification error"]

ParseError == [type |-> "error", id |-> "", text |-> "unable to parse request JSON"]

\* C22: a request whose body is not JSON is answered 400 with the error
\* envelope carrying the parse error, and no backend operation is invoked for
\* it: no event is built, no call is logged, rows and handoff tasks stay as
\* they were.  This holds for the Chat API handler and, whatever the signature
\* header is, for the signed handler in no-verify mode; in verify mode such a
\* request is answered 400 as well, with no backend operation.
C22_UndecodableBodyRejected ==
    /\ (req[1].pc # "idle" /\ ~req[1].payload.json) =>
          /\ req[1].pc = "done" /\ req[1].code = 400 /\ req[1].message = "Error"
          /\ req[1].data = <<ParseError>>
          /\ req[1].log = <<>> /\ req[1].event = NoEvent /\ req[1].events = <<>>
    /\ (fc.pc # "idle" /\ ~fc.body.json) =>
          /\ fc.pc = "done" /\ fc.code = 400 /\ fc.message = "Error"
          /\ ~fc.validateSignatures => fc.data = <<ParseError>>
          /\ fc.log = <<>> /\ fc.event = NoEvent
          /\ rows = fc.before.rows /\ handoff = fc.before.handoff

\* C22's case: the body "empty" sent with the corrupted signature to the
\* handler made in no-verify mode, after a message was persisted
C22_Witness ==
    /\ fc.pc = "done" /\ ~fc.validateSignatures
    /\ fc.body = notJSON /\ fc.sig = invalidSignature
    /\ fc.data = <<ParseError>>
    /\ rows # <<>>

(***************************************************************************)
(* Properties of the callers of the enqueues.                              *)
(***************************************************************************)
\* the keys a mailroom enqueue for org o and contact ct writes, and the keys a
\* legacy enqueue writes, with and without its sub-queue
MailroomKeys(o, ct) ==
    {contactQueueKey(o, ct), orgQueueKey("handler", o), activeKey("handler")}
LegacyKeys(o) ==
    {orgQueueKey("handle_event_task", o), activeKey("handle_event_task"), "handler"}

\* the keys call c wrote to, and the task types it pushed on contact lists
WriteKeys(c) == {sent[c][i].key : i \in {j \in 1..Len(sent[c]) : IsWrite(sent[c][j])}}
PushedTypes(c) ==
    {sent[c][i].member[2].type : i \in {j \in 1..Len(sent[c]) : sent[c][j].op = "rpush"}}

OneEnqueue(c) == CountOp(sent[c], "multi") = 1 /\ CountOp(sent[c], "exec") = 1

\* C23: queueMsgHandling makes exactly one enqueue per call, and the org flag
\* alone decides its form: with the flag a mailroom enqueue of msg_event into
\* c:<org>:<contact>, handler:<org> and handler:active, and no legacy key;
\* without it a legacy enqueue of handle_event_task with sub-queue
\* ch:<contact>, and no contact list.  queueChannelEvent, when it enqueues,
\* splits the same way, its legacy enqueue writing no sub-queue.  The database
\* holds no key but those the executed calls wrote.
C23_FlagChoosesQueue ==
    /\ \A c \in Calls :
          LET via == qcall[c].via
              o == qcall[c].orgID
              ct == via.contactID
          IN  /\ (qpc[c] # "idle" /\ via.fn = "queueMsgHandling") =>
                    /\ OneEnqueue(c)
                    /\ via.flowServerEnabled =>
                          /\ WriteKeys(c) = MailroomKeys(o, ct)
                          /\ PushedTypes(c) = {"msg_event"}
                          /\ CountOp(sent[c], "rpush") = 1
                    /\ ~via.flowServerEnabled =>
                          /\ WriteKeys(c) = LegacyKeys(o) \cup {subQueueKey(ct)}
                          /\ Len(ZAddsTo(c, subQueueKey(ct))) = 1
                          /\ ZAdds(c)[1].member[2].contact_id = ct
                          /\ CountOp(sent[c], "rpush") = 0
              /\ (qpc[c] # "idle" /\ via.fn = "queueChannelEvent" /\ sent[c] # <<>>) =>
                    /\ OneEnqueue(c)
                    /\ via.flowServerEnabled =>
                          /\ WriteKeys(c) = MailroomKeys(o, ct)
                          /\ PushedTypes(c) = {mailroomTaskType(via.eventType)}
                          /\ CountOp(sent[c], "rpush") = 1
                    /\ ~via.flowServerEnabled =>
                          /\ WriteKeys(c) = LegacyKeys(o)
                          /\ CountOp(sent[c], "rpush") = 0
    /\ \A k \in {e.key : e \in zsets} \cup DOMAIN lists :
          \E c \in Calls : applied[c] > 0 /\ k \in WriteKeys(c)

\* C23's case: a message of a flow-server-enabled org and a message of an org
\* without the flag were both enqueued and executed
C23_Witness ==
    \E c, d \in Calls :
        /\ qcall[c].via.fn = "queueMsgHandling" /\ qcall[c].via.flowServerEnabled
        /\ qcall[d].via.fn = "queueMsgHandling" /\ ~qcall[d].via.flowServerEnabled
        /\ applied[c] > 0 /\ applied[d] > 0
        /\ qcall[c].orgID # qcall[d].orgID

\* the call was made for an event whose type the mailroom switch does not list
UnlistedEvent(c) ==
    /\ qpc[c] # "idle"
    /\ qcall[c].via.fn = "queueChannelEvent"
    /\ mailroomTaskType(qcall[c].via.eventType) = ""

\* C24: for a flow-server-enabled org queueChannelEvent with an event type
\* other than stop-contact, welcome-message, referral and new-conversation
\* returns the error at once and issues no Redis command: nothing is sent,
\* nothing is applied, and the database is what the executed transactions of
\* the other calls made it.  For an org without the flag the same event is
\* enqueued on the legacy queue like an event of any other type.
C24_UnknownEventType ==
    /\ \A c \in Calls :
          /\ (UnlistedEvent(c) /\ qcall[c].via.flowServerEnabled) =>
                /\ qpc[c] = "done" /\ qret[c] = "err"
                /\ sent[c] = <<>> /\ pipe[c] = <<>> /\ applied[c] = 0
                /\ \A i \in 1..Len(execOrder) : execOrder[i] # c
          /\ (qpc[c] # "idle" /\ qcall[c].via.fn = "queueChannelEvent"
                /\ ~qcall[c].via.flowServerEnabled) =>
                /\ WriteKeys(c) = LegacyKeys(qcall[c].orgID)
                /\ Len(ZAdds(c)) = 1
                /\ ZAdds(c)[1].member = <<"json", legacyEventBody(qcall[c].via.contactID)>>
                /\ applied[c] > 0 =>
                      ZHas(zsets, orgQueueKey("handle_event_task", qcall[c].orgID),
                           ZAdds(c)[1].member)
    /\ [zsets |-> zsets, lists |-> lists] = Replay(EmptyDb, execOrder)

\* C24's case: an event of an unlisted type was enqueued and executed for an
\* org without the flag, and an event of the same type was refused for a
\* flow-server-enabled org
C24_Witness ==
    \E c, d \in Calls :
        /\ UnlistedEvent(c) /\ qcall[c].via.flowServerEnabled /\ qret[c] = "err"
        /\ UnlistedEvent(d) /\ ~qcall[d].via.flowServerEnabled /\ applied[d] > 0
        /\ d < c

(***************************************************************************)
(* Properties of the mailroom queues.                                      *)
(***************************************************************************)
\* handler:<o> holds a handle_contact_event task for contact ct
HasDispatchEntry(o, ct) ==
    \E e \in zsets :
        /\ e.key = orgQueueKey("handler", o)
        /\ e.member[2].type = "handle_contact_event"
        /\ e.member[2].org_id = o
        /\ e.member[2].task = mrContactTask(ct)

\* C25: with no consumer running, in every state the interleaved enqueues
\* reach, a non-empty list c:<org>:<contact> comes with at least one
\* handle_contact_event entry for that contact in handler:<org>, and with the
\* org in handler:active.
C25_ContactListHasDispatchEntry ==
    \A o \in OrgIDs, ct \in ContactIDs :
        ListGet(lists, contactQueueKey(o, ct)) # <<>> =>
            /\ HasDispatchEntry(o, ct)
            /\ ZHas(zsets, activeKey("handler"), <<"org", o>>)

\* C25's case: two mailroom enqueues for two contacts of one org were made
\* concurrently and executed, the later call first
C25_Witness ==
    \E o \in OrgIDs : \E ct, cu \in ContactIDs :
        /\ ct # cu
        /\ ListGet(lists, contactQueueKey(o, ct)) # <<>>
        /\ ListGet(lists, contactQueueKey(o, cu)) # <<>>
        /\ execOrder = <<2, 1>>

(***************************************************************************)
(* Properties of the messages that send nothing.                           *)
(***************************************************************************)
\* the attachments walked so far whose media type the adapter does not send
UnknownWalked ==
    {i \in 1..(snd.k - 1) : SendPath(snd.variant, snd.msg.Attachments[i].mediaType) = ""}

UnknownLogs == SelectSeq(snd.status.logs, LAMBDA l : l.code = 0 /\ l.err # "")

\* the message has nothing the adapter sends: no text and no attachment, or a
\* single attachment of an unknown media type, with text or without
NothingToSend ==
    \/ snd.msg.Text = "" /\ snd.msg.Attachments = <<>>
    \/ /\ Len(snd.msg.Attachments) = 1
       /\ SendPath(snd.variant, snd.msg.Attachments[1].mediaType) = ""

\* C26: SendMsg returns wired only after at least one HTTP request, the last
\* part being one that was sent and succeeded; a message with nothing to send
\* ends errored with no HTTP request, its text not sent either; every
\* attachment of an unknown media type is a part that was not sent and failed,
\* with one ChannelLog of its own and hasError set: a message whose last part
\* it is ends errored.
C26_WiredNeedsAnHTTPPart ==
    /\ (Returned /\ snd.status.status = "W") =>
          /\ snd.http # <<>>
          /\ snd.parts[Len(snd.parts)].sent /\ snd.parts[Len(snd.parts)].ok
    /\ (Returned /\ snd.http = <<>>) => (snd.status.status = "E" /\ Surface(snd) = "E")
    /\ (Returned /\ NothingToSend) => (snd.http = <<>> /\ snd.status.status = "E")
    /\ snd.pc \in {"attachments", "done"} /\ snd.ret \in {"none", "nil"} =>
          LET off == Len(snd.parts) - (snd.k - 1)
          IN  /\ Len(UnknownLogs) = Cardinality(UnknownWalked)
              /\ \A i \in UnknownWalked :
                    /\ ~snd.parts[off + i].sent /\ ~snd.parts[off + i].ok
                    /\ \E j \in 1..Len(snd.status.logs) :
                          snd.status.logs[j] = NewChannelLog(snd.msg.Attachments[i].mediaType)
              /\ (snd.k - 1) \in UnknownWalked =>
                    (snd.hasError /\ snd.status.status = "E")

\* C26's case: a message with text and a single attachment of an unknown
\* media type was returned: nothing was requested, one log was attached
C26_Witness ==
    /\ Returned
    /\ snd.msg.Text # "" /\ Len(snd.msg.Attachments) = 1
    /\ snd.http = <<>>
    /\ Len(snd.status.logs) = 1
    /\ snd.status.status = "E"

(***************************************************************************)
(* Properties of the acks and of the messages sent by the channel itself.  *)
(***************************************************************************)
\* the status an ack status stands for
CanonicalStatus(s) ==
    CASE s = "sent" -> "S" [] s = "delivered" -> "D" [] OTHER -> "Q"

\* the messages among the first n of ms that were not sent by the channel itself
RECURSIVE InboundAmong(_, _)
InboundAmong(ms, n) ==
    IF n = 0 THEN 0 ELSE InboundAmong(ms, n - 1) + (IF ms[n].FromMe THEN 0 ELSE 1)

MsgItems(data) == SelectSeq(data, LAMBDA d : d.type = "msg")

\* C27: the k-th WriteMsgStatus call of a request is the call for its k-th ack:
\* keyed by the ack's external id, with status sent for "sent", delivered for
\* "delivered" and queued for any other value, the empty one included; a
\* request that is answered "Events Handled" has made one call per ack.  A
\* message with fromMe = true causes no backend call, no 400 for its author
\* and no response item: the calls and the items are those of the other
\* messages.
C27_AckStatusPerAck ==
    /\ \A s \in {"sent", "delivered", "viewed", "", "SENT", "read"} :
          AckStatus([ID |-> "o1", Status |-> s]) = CanonicalStatus(s)
    /\ \A r \in Reqs :
          LET rq == req[r]
              a == Sel(rq.log, {"WriteMsgStatus"})
              walked == IF rq.pc = "messages" THEN rq.i - 1
                        ELSE IF rq.i > Len(rq.payload.Messages)
                             THEN Len(rq.payload.Messages)
                             ELSE rq.i
          IN  /\ Len(a) <= Len(rq.payload.Ack)
              /\ \A k \in 1..Len(a) :
                    /\ a[k].id = rq.payload.Ack[k].ID
                    /\ a[k].arg = CanonicalStatus(rq.payload.Ack[k].Status)
              /\ rq.message = "Events Handled" => Len(a) = Len(rq.payload.Ack)
              /\ rq.pc # "idle" /\ rq.payload.json /\ rq.payload.InstanceID # "" =>
                    /\ Len(Sel(rq.log, {"CheckExternalIDSeen"}))
                          <= InboundAmong(rq.payload.Messages, walked)
                    /\ Len(Sel(rq.log, {"WriteMsg"})) <= Len(Sel(rq.log, {"CheckExternalIDSeen"}))
                    /\ Len(Sel(rq.log, {"WriteExternalIDSeen"})) <= Len(Sel(rq.log, {"WriteMsg"}))
                    /\ rq.code # 400 =>
                          Len(MsgItems(rq.data)) = Len(Sel(rq.log, {"WriteExternalIDSeen"}))
                    /\ rq.code = 400 =>
                          \E k \in 1..Len(rq.payload.Messages) :
                              /\ ~rq.payload.Messages[k].FromMe
                              /\ NewWhatsAppURN(rq.payload.Messages[k].Author).err # "nil"
              /\ rq.message = "Events Handled" =>
                    IDsOf(MsgItems(rq.data)) = InboundIDs(rq.payload.Messages)

\* C27's case: a webhook with a message of the channel itself, whose author
\* gives no URN, and an ack with an unrecognised status was answered 200 with
\* the one status item, after the one call that wrote queued
C27_Witness ==
    \E r \in Reqs :
        LET rq == req[r]
        IN  /\ rq.pc = "done" /\ rq.code = 200
            /\ Len(rq.payload.Messages) = 1 /\ rq.payload.Messages[1].FromMe
            /\ NewWhatsAppURN(rq.payload.Messages[1].Author).err # "nil"
            /\ Len(rq.payload.Ack) = 1 /\ rq.payload.Ack[1].Status = "viewed"
            /\ rq.log = <<Call("WriteMsgStatus", rq.payload.Ack[1].ID, "Q", "nil")>>
            /\ Len(rq.data) = 1 /\ rq.data[1].type = "status"

====
